---- MODULE Spec2Model ----
(***************************************************************************)
(* Metrics store of the speech-synthesis pipeline: the relational tables   *)
(* of src/metrics_collection/models.py and the command-line pipelines      *)
(* that reconcile a metadata table against them.                           *)
(*                                                                         *)
(* One CLI invocation is one step: the handler runs from reading the       *)
(* metadata table to session.commit() (or to the exception that leaves     *)
(* the "with Session(engine)" block without committing).  After the step   *)
(* the process has exited (pc = "exited") and `run` records what was       *)
(* invoked and the store it started from; the operator then either runs    *)
(* the very same command again (Rerun) or goes back to the shell.          *)
(***************************************************************************)
EXTENDS Integers, Sequences, FiniteSets, TLC

VARIABLES db, pc, run, runs

vars == <<db, pc, run, runs>>

(***************************************************************************)
(* Bounds of the model.                                                    *)
(***************************************************************************)
\* rows of one metadata table
MaxRows == 2
\* fresh command lines typed into the shell in one behaviour
MaxRuns == 2
\* range keys one filter config carries
MaxFilters == 2
\* rows of the metadata table given to read_metadata_and_calculate_hash alone
MaxHasherRows == 3
\* audio files in the folder given to parce_audio_folder_to_dataset
MaxFolderFiles == 4
\* lines of the cmuarctic.data text and digits of one prompt number
MaxArcticLines == 2
MaxDigits == 2
\* files of one MLS speaker and invocations of the MLS preprocessing
MaxSpeakerFiles == 3
MaxProcessCalls == 3

\* md5 digests; the bytes of a file are identified with their digest
Hashes == {"h1", "h2"}
\* relative paths of the wav files of a dataset
Paths == {"a.wav", "b.wav"}
\* directory_name of the storage the pipeline is pointed at
Datasets == {"d1", "d2"}
\* transcripts
Texts == {"t1", "t2"}
\* what pandas holds in an empty cell and what Series.map gives for a missing key
NaN == "NaN"
\* the cell of the hash column when the table has no such column
NoColumn == "-"
\* AudioToDataset.speaker_id: the default of the column, and the speakers a
\* metadata table names
UnknownSpeaker == -1
Speakers == {0}

(***************************************************************************)
(* Sequences as pandas frames.                                             *)
(***************************************************************************)
RECURSIVE Pick(_, _)
\* the rows of df whose index is in keep, in frame order (boolean-mask indexing)
Pick(df, keep) ==
    IF df = <<>> THEN <<>>
    ELSE Pick(SubSeq(df, 1, Len(df) - 1), keep)
            \o (IF Len(df) \in keep THEN <<df[Len(df)]>> ELSE <<>>)

Range(s) == {s[i] : i \in DOMAIN s}

\* DataFrame.drop_duplicates(): a row equal to an earlier row goes, the first stays
DropDuplicates(df) ==
    Pick(df, {i \in DOMAIN df : \A j \in 1..(i - 1) : df[j] # df[i]})

\* drop_duplicates(subset=["hash"]) left out: every row stays
DropDuplicatesKeepAll(df) == df

\* duplicates dropped on the hash and the path together
DropDuplicatesByHashAndPath(df) ==
    Pick(df, {i \in DOMAIN df :
                \A j \in 1..(i - 1) :
                   df[j].hash # df[i].hash \/ df[j].path_to_wav # df[i].path_to_wav})

\* DataFrame.drop_duplicates(subset=["hash"]): first row of each digest stays
DropDuplicatesByHash(df) ==
    Pick(df, {i \in DOMAIN df : \A j \in 1..(i - 1) : df[j].hash # df[i].hash})

\* set(df["hash"])
HashColumn(df) == {df[i].hash : i \in DOMAIN df}

\* df[df["hash"].isin(hs)] and df[~df["hash"].isin(hs)]
IsIn(df, hs) == Pick(df, {i \in DOMAIN df : df[i].hash \in hs})
NotIn(df, hs) == Pick(df, {i \in DOMAIN df : df[i].hash \notin hs})

(***************************************************************************)
(* The storage adapter (src/data_managers.py).  fs maps the paths that     *)
(* exist to the digest of their bytes.                                     *)
(***************************************************************************)
FileSystems == UNION {[S -> Hashes] : S \in SUBSET Paths}

\* get_buffered_reader: open() fails inside try, and "finally: file.close()"
\* then raises UnboundLocalError, for both managers
ReaderRaises(fs, path) == path \notin DOMAIN fs

\* get_buffered_writer("metadata.csv"): the local manager calls
\* os.makedirs(os.path.dirname(path)) with dirname "", which raises; mfa_processing
\* passes the dataset path, a str, as the manager, which has no such method
WriterRaises(fm) == fm \in {"local", "str"}

\* hashlib.md5(reader.read()).hexdigest()
get_hash_of_file(fs, path) == fs[path]

(***************************************************************************)
(* read_metadata_and_calculate_hash (src/utils.py).                        *)
(* meta = [table, hash_col, fs, fm]; the result is [ok, df].               *)
(***************************************************************************)
Raised == [ok |-> FALSE, df |-> <<>>]

\* the hashing of a table without hash column raises: a file cannot be read,
\* or metadata.csv cannot be written back
HashingRaises(meta) ==
    \/ \E i \in DOMAIN meta.table : ReaderRaises(meta.fs, meta.table[i].path_to_wav)
    \/ WriterRaises(meta.fm)

\* metadata_df["hash"] = Parallel(...)(get_hash_of_file ...)
FillHashes(metadata_df, fs) ==
    [i \in DOMAIN metadata_df |->
        [metadata_df[i] EXCEPT !.hash = get_hash_of_file(fs, metadata_df[i].path_to_wav)]]

WithHashes(meta) == FillHashes(DropDuplicates(meta.table), meta.fs)

read_metadata_and_calculate_hash(meta) ==
    IF meta.hash_col
    THEN [ok |-> TRUE, df |-> DropDuplicatesByHash(DropDuplicates(meta.table))]
    ELSE IF HashingRaises(meta)
    THEN Raised
    ELSE [ok |-> TRUE, df |-> DropDuplicatesByHash(WithHashes(meta))]

\* metadata.csv as the call leaves it: metadata_df.to_csv(metadata_writer, ...)
\* stores the table with its new hash column, before the rows of one hash are
\* collapsed
MetadataAfter(meta) ==
    IF meta.hash_col \/ HashingRaises(meta) THEN meta
    ELSE [meta EXCEPT !.table = WithHashes(meta), !.hash_col = TRUE]

(***************************************************************************)
(* The tables (src/metrics_collection/models.py) and the session.          *)
(***************************************************************************)
EmptyDb ==
    [audio_metrics            |-> {},
     audio_to_dataset         |-> {},
     audio_to_original_text   |-> {},
     audio_to_asr_text        |-> {},
     text_comparation_metrics |-> {},
     audio_to_mfa_data        |-> {}]

HashesOf(rows) == {r.audio_md5_hash : r \in rows}

\* tables declared without their ForeignKey
ForeignKeyUnchecked(d) == TRUE

\* ForeignKey("audio_metrics.audio_md5_hash") of the five dependent tables
ForeignKeyHolds(d) ==
    \A t \in {"audio_to_dataset", "audio_to_original_text", "audio_to_asr_text",
              "text_comparation_metrics", "audio_to_mfa_data"} :
        HashesOf(d[t]) \subseteq HashesOf(d.audio_metrics)

\* primary_key=True on audio_md5_hash (and on the identity column of audio_to_dataset)
PrimaryKeyHolds(d) ==
    /\ \A t \in {"audio_metrics", "audio_to_original_text", "audio_to_asr_text",
                 "text_comparation_metrics", "audio_to_mfa_data"} :
          \A r1, r2 \in d[t] : r1.audio_md5_hash = r2.audio_md5_hash => r1 = r2
    /\ \A r1, r2 \in d.audio_to_dataset : r1.id = r2.id => r1 = r2

(***************************************************************************)
(* The session.  s = [ok, db]: db is the store as the session sees it, its *)
(* pending rows included; ok is FALSE once a statement has raised, and no  *)
(* later statement of the block runs.  The rows an operation is given come *)
(* as res = [ok, rows]: ok is FALSE if computing them raised.              *)
(***************************************************************************)
\* with Session(engine) as session:
Begin(d) == [ok |-> TRUE, db |-> d]

\* an exception on the way into or inside the block
Raise(d) == [ok |-> FALSE, db |-> d]

Rows(rows) == [ok |-> TRUE, rows |-> rows]

NoRows == [ok |-> FALSE, rows |-> <<>>]

\* session.add_all(objs) of a hash-keyed table, flushed: the rows join the
\* table; two pending objects with one key, or a key that is in the table
\* already, make the flush raise
AddAll(s, t, res) ==
    IF ~s.ok THEN s
    ELSE IF \/ ~res.ok
            \/ \E i, j \in DOMAIN res.rows :
                  i # j /\ res.rows[i].audio_md5_hash = res.rows[j].audio_md5_hash
            \/ \E i \in DOMAIN res.rows : res.rows[i].audio_md5_hash \in HashesOf(s.db[t])
    THEN [s EXCEPT !.ok = FALSE]
    ELSE [s EXCEPT !.db[t] = @ \cup Range(res.rows)]

MaxId(rows) == IF rows = {} THEN 0 ELSE CHOOSE m \in {r.id : r \in rows} : \A r \in rows : r.id <= m

\* session.add_all of AudioToDataset objects: Identity() numbers them in order
AddAllAudioToDataset(s, objs) ==
    IF ~s.ok THEN s
    ELSE [s EXCEPT !.db.audio_to_dataset =
             @ \cup {[objs[i] EXCEPT !.id = MaxId(s.db.audio_to_dataset) + i] : i \in DOMAIN objs}]

\* the dict that stays for a key when several dicts of one executemany carry it
LastOf(dicts, h) ==
    dicts[CHOOSE i \in DOMAIN dicts :
             /\ dicts[i].audio_md5_hash = h
             /\ \A j \in DOMAIN dicts : dicts[j].audio_md5_hash = h => j <= i]

\* session.execute(update(T), dicts): ORM bulk UPDATE by primary key of a
\* hash-keyed table; every dict replaces the row of its key, and a key without
\* a row makes the row count check raise
BulkUpdate(s, t, res) ==
    IF ~s.ok THEN s
    ELSE IF ~res.ok \/ ~(HashesOf(Range(res.rows)) \subseteq HashesOf(s.db[t]))
    THEN [s EXCEPT !.ok = FALSE]
    ELSE [s EXCEPT !.db[t] = {r \in @ : r.audio_md5_hash \notin HashesOf(Range(res.rows))}
                               \cup {LastOf(res.rows, h) : h \in HashesOf(Range(res.rows))}]

\* session.execute(update(AudioToDataset), dicts) with dicts from
\* dataclasses.asdict: "id" is init=False, so every dict carries id None.
\* The ORM either refuses a bulk UPDATE without primary key values or emits
\* WHERE id = NULL, which matches no row; null_pk says which the installed
\* version does.  An empty list does nothing.
BulkUpdateAudioToDataset(s, dicts, null_pk) ==
    IF ~s.ok \/ dicts = <<>> THEN s
    ELSE IF null_pk = "raise" THEN [s EXCEPT !.ok = FALSE]
    ELSE s

\* the block left by an exception with its pending rows written all the same
RollbackKeepsPending(d, pending) == pending

\* "with Session(engine) as session:" left by an exception: session.commit() at
\* the end of the block was not reached, the pending rows are discarded
Rollback(d, pending) == d

\* session.commit() at the end of the block: the constraints of the tables are
\* checked on what is flushed; a violation raises and nothing is committed
Commit(d, s) ==
    IF s.ok /\ ForeignKeyHolds(s.db) /\ PrimaryKeyHolds(s.db)
    THEN [ok |-> TRUE, db |-> s.db]
    ELSE [ok |-> FALSE, db |-> Rollback(d, s.db)]

(***************************************************************************)
(* collect_audio_metrics.py                                                *)
(***************************************************************************)
\* sf.info and pydub on the bytes of a file: a function of the bytes
AudioInfo(content) ==
    IF content = "h1"
    THEN [duration_seconds |-> 1, sample_rate |-> 16000, channels |-> 1, pcm_format |-> "PCM_16",
          SNR |-> 1, dBFS |-> -1]
    ELSE IF content = "h3"
    THEN [duration_seconds |-> 60, sample_rate |-> 16000, channels |-> 1, pcm_format |-> "PCM_16",
          SNR |-> 1, dBFS |-> -1]
    ELSE [duration_seconds |-> 2, sample_rate |-> 44100, channels |-> 2, pcm_format |-> "PCM_24",
          SNR |-> 2, dBFS |-> -2]

AudioMetricsRow(hash, content) ==
    [audio_md5_hash |-> hash, duration_seconds |-> AudioInfo(content).duration_seconds,
     sample_rate |-> AudioInfo(content).sample_rate, channels |-> AudioInfo(content).channels,
     pcm_format |-> AudioInfo(content).pcm_format,
     SNR |-> AudioInfo(content).SNR, dBFS |-> AudioInfo(content).dBFS]

\* process_file opens the file through get_buffered_reader outside any try:
\* a missing file raises out of the Parallel call
get_audio_metrics_from_selected_samples(dataframe, fs) ==
    IF \E i \in DOMAIN dataframe : ReaderRaises(fs, dataframe[i].path_to_wav)
    THEN NoRows
    ELSE Rows([i \in DOMAIN dataframe |->
                 AudioMetricsRow(dataframe[i].hash, fs[dataframe[i].path_to_wav])])

get_datasets_info_from_selected_samples(dataframe, dataset_name) ==
    [i \in DOMAIN dataframe |->
        [id |-> 0, audio_md5_hash |-> dataframe[i].hash, dataset_name |-> dataset_name,
         path_to_file |-> dataframe[i].path_to_wav, speaker_id |-> dataframe[i].speaker_id]]

\* select(AudioMetrics.audio_md5_hash)
existing_in_db_hashes_of_audio(d) == HashesOf(d.audio_metrics)

\* the query of the AudioToDataset hashes finding none
no_hashes_of_datasets_info(d, dataset_name) == {}

\* select(AudioToDataset.audio_md5_hash).where(AudioToDataset.dataset_name == dataset_name)
existing_in_db_hashes_of_datasets_info(d, dataset_name) ==
    HashesOf({r \in d.audio_to_dataset : r.dataset_name = dataset_name})

\* the frame the overwrite branch recomputes audio metrics for: the code passes
\* samples_to_add (by then the rows new to the dataset), not samples_to_update
OverwriteAudioFrame(samples_to_add, samples_to_update) == samples_to_add

\* the two add_all of calculate_and_load_metrics_to_db; inp = [dataset_name,
\* overwrite, null_pk, meta], d the store the block started from
AddSamples(d, inp, metadata_df) ==
    AddAllAudioToDataset(
        AddAll(Begin(d), "audio_metrics",
               get_audio_metrics_from_selected_samples(
                   NotIn(metadata_df, existing_in_db_hashes_of_audio(d)), inp.meta.fs)),
        get_datasets_info_from_selected_samples(
            NotIn(metadata_df, existing_in_db_hashes_of_datasets_info(d, inp.dataset_name)),
            inp.dataset_name))

\* "if overwrite:" of calculate_and_load_metrics_to_db, on the session s
OverwriteSamples(d, inp, metadata_df, s) ==
    IF ~inp.overwrite THEN s
    ELSE BulkUpdateAudioToDataset(
            BulkUpdate(s, "audio_metrics",
                get_audio_metrics_from_selected_samples(
                    OverwriteAudioFrame(
                        NotIn(metadata_df, existing_in_db_hashes_of_datasets_info(d, inp.dataset_name)),
                        IsIn(metadata_df, existing_in_db_hashes_of_audio(d))),
                    inp.meta.fs)),
            get_datasets_info_from_selected_samples(
                IsIn(metadata_df, existing_in_db_hashes_of_datasets_info(d, inp.dataset_name)),
                inp.dataset_name),
            inp.null_pk)

LoadMetrics(d, inp, md) ==
    IF ~md.ok THEN Raise(d)
    ELSE OverwriteSamples(d, inp, md.df, AddSamples(d, inp, md.df))

calculate_and_load_metrics_to_db(d, inp) ==
    Commit(d, LoadMetrics(d, inp, read_metadata_and_calculate_hash(inp.meta)))

(***************************************************************************)
(* collect_audio_texts.py: the transcripts of the metadata table.          *)
(* inp = [overwrite, text_col, meta]                                       *)
(***************************************************************************)
get_original_texts_from_selected_samples(dataframe) ==
    Rows([i \in DOMAIN dataframe |->
            [audio_md5_hash |-> dataframe[i].hash, text |-> dataframe[i].text]])

\* the transcripts loaded with the update pass run whatever the flag says
LoadTextsOverwriting(d, inp, md) ==
    IF ~md.ok \/ ~inp.text_col THEN Raise(d)
    ELSE BulkUpdate(
            AddAll(Begin(d), "audio_to_original_text",
                get_original_texts_from_selected_samples(
                    NotIn(md.df, HashesOf(d.audio_to_original_text)))),
            "audio_to_original_text",
            get_original_texts_from_selected_samples(
                IsIn(md.df, HashesOf(d.audio_to_original_text))))

LoadTexts(d, inp, md) ==
    \* assert "text" in metadata_df.columns
    IF ~md.ok \/ ~inp.text_col THEN Raise(d)
    ELSE IF ~inp.overwrite
    THEN AddAll(Begin(d), "audio_to_original_text",
            get_original_texts_from_selected_samples(
                NotIn(md.df, HashesOf(d.audio_to_original_text))))
    ELSE BulkUpdate(
            AddAll(Begin(d), "audio_to_original_text",
                get_original_texts_from_selected_samples(
                    NotIn(md.df, HashesOf(d.audio_to_original_text)))),
            "audio_to_original_text",
            get_original_texts_from_selected_samples(
                IsIn(md.df, HashesOf(d.audio_to_original_text))))

process_text_metrics_to_db(d, inp) ==
    Commit(d, LoadTexts(d, inp, read_metadata_and_calculate_hash(inp.meta)))

(***************************************************************************)
(* asr_processing.py: the recognized texts.                                *)
(* inp = [overwrite, meta, asr], asr = [failed, recognized]: what the      *)
(* batches of process_audios give for this command: an exception out of    *)
(* one of them (a missing wav, a failed or timed-out inference request),   *)
(* or a text for every path (read from its text file or inferred).         *)
(***************************************************************************)
process_selected_samples(dataframe, asr) ==
    IF dataframe # <<>> /\ asr.failed
    THEN NoRows
    ELSE Rows([i \in DOMAIN dataframe |->
                 [audio_md5_hash |-> dataframe[i].hash,
                  text |-> asr.recognized[dataframe[i].path_to_wav]]])

LoadAsrTexts(d, inp, md) ==
    IF ~md.ok THEN Raise(d)
    ELSE IF ~inp.overwrite
    THEN AddAll(Begin(d), "audio_to_asr_text",
            process_selected_samples(NotIn(md.df, HashesOf(d.audio_to_asr_text)), inp.asr))
    ELSE BulkUpdate(
            AddAll(Begin(d), "audio_to_asr_text",
                process_selected_samples(NotIn(md.df, HashesOf(d.audio_to_asr_text)), inp.asr)),
            "audio_to_asr_text",
            process_selected_samples(IsIn(md.df, HashesOf(d.audio_to_asr_text)), inp.asr))

process_dataset(d, inp) ==
    Commit(d, LoadAsrTexts(d, inp, read_metadata_and_calculate_hash(inp.meta)))

(***************************************************************************)
(* calculate_wer_cer.py                                                    *)
(* inp = [overwrite, meta]                                                 *)
(***************************************************************************)
\* jiwer's wer and cer of a reference and a hypothesis: 0 exactly when equal
wer(reference, hypothesis) == IF reference = hypothesis THEN 0 ELSE 1
cer(reference, hypothesis) == IF reference = hypothesis THEN 0 ELSE 1

TextOf(rows, h) == (CHOOSE r \in rows : r.audio_md5_hash = h).text

\* a set of hashes as a list, in the order list(set) happens to give
RECURSIVE AsList(_)
AsList(hs) ==
    IF hs = {} THEN <<>>
    ELSE <<CHOOSE x \in hs : TRUE>> \o AsList(hs \ {CHOOSE x \in hs : TRUE})

\* the rows of one list of hashes
ComparisonRows(l, original_texts, asr_texts) ==
    [i \in DOMAIN l |->
        [audio_md5_hash |-> l[i],
         WER |-> wer(TextOf(original_texts, l[i]), TextOf(asr_texts, l[i])),
         CER |-> cer(TextOf(original_texts, l[i]), TextOf(asr_texts, l[i]))]]

\* hash_to_original_text_dict[hash] and hash_to_asr_text_dict[hash]: a hash
\* without an entry in either dict raises KeyError
calculate_samples_wer_cer(hashes, original_texts, asr_texts) ==
    IF ~(hashes \subseteq HashesOf(original_texts) \cap HashesOf(asr_texts))
    THEN NoRows
    ELSE Rows(ComparisonRows(AsList(hashes), original_texts, asr_texts))

\* the fingerprints of either text
EitherHashes(original_texts, asr_texts) ==
    HashesOf(original_texts) \cup HashesOf(asr_texts)

\* the fingerprints WER and CER are computed for: those with both texts
IntersectedHashes(original_texts, asr_texts) ==
    HashesOf(original_texts) \cap HashesOf(asr_texts)

\* the rows of a table among the hashes of the dataset
OfDataset(rows, dataset_hashes) == {r \in rows : r.audio_md5_hash \in dataset_hashes}

\* the block past the two early returns; existing are the hashes of the dataset
\* that have a comparison row
CompareTexts(d, overwrite, existing, original_texts, asr_texts) ==
    IF ~overwrite
    THEN AddAll(Begin(d), "text_comparation_metrics",
            calculate_samples_wer_cer(
                IntersectedHashes(original_texts, asr_texts) \ existing, original_texts, asr_texts))
    ELSE BulkUpdate(
            AddAll(Begin(d), "text_comparation_metrics",
                calculate_samples_wer_cer(
                    IntersectedHashes(original_texts, asr_texts) \ existing,
                    original_texts, asr_texts)),
            "text_comparation_metrics",
            calculate_samples_wer_cer(
                IntersectedHashes(original_texts, asr_texts) \cap existing,
                original_texts, asr_texts))

LoadComparison(d, inp, dataset_hashes) ==
    IF \/ OfDataset(d.audio_to_original_text, dataset_hashes) = {}
       \/ OfDataset(d.audio_to_asr_text, dataset_hashes) = {}
    THEN Begin(d)                                  \* the two early returns
    ELSE CompareTexts(d, inp.overwrite,
            HashesOf(OfDataset(d.text_comparation_metrics, dataset_hashes)),
            OfDataset(d.audio_to_original_text, dataset_hashes),
            OfDataset(d.audio_to_asr_text, dataset_hashes))

process_text_comparison_metrics_to_db(d, inp) ==
    IF ~read_metadata_and_calculate_hash(inp.meta).ok THEN Commit(d, Raise(d))
    ELSE Commit(d, LoadComparison(d, inp,
                      HashColumn(read_metadata_and_calculate_hash(inp.meta).df)))

(***************************************************************************)
(* mfa_processing.py: forced alignment.                                    *)
(* inp = [overwrite, text_col, meta, grids]; grids are the wav paths for   *)
(* which "mfa align_one" leaves a TextGrid file.                           *)
(***************************************************************************)
\* save_text(text_path, text) runs before the try: f.write of a NaN raises
\* TypeError; past it, no TextGrid gives None and a TextGrid gives its intervals
allign_sample(path_to_audio, text, grids) ==
    IF text = NaN THEN [ok |-> FALSE, data |-> NaN]
    ELSE IF path_to_audio \in grids THEN [ok |-> TRUE, data |-> text]
    ELSE [ok |-> TRUE, data |-> NaN]

\* the rows of a frame whose mfa_textgrid_data is not null
Processed(dataframe, grids) ==
    Pick(dataframe,
         {i \in DOMAIN dataframe :
             allign_sample(dataframe[i].path_to_wav, dataframe[i].text, grids).data # NaN})

\* the Parallel call over a frame, then the AudioToMFAData of the processed rows
AlignFrame(dataframe, grids) ==
    IF \E i \in DOMAIN dataframe :
          ~allign_sample(dataframe[i].path_to_wav, dataframe[i].text, grids).ok
    THEN NoRows
    ELSE Rows([i \in DOMAIN Processed(dataframe, grids) |->
                 [audio_md5_hash |-> Processed(dataframe, grids)[i].hash,
                  mfa_textgrid_data |-> Processed(dataframe, grids)[i].text]])

\* samples_to_add["text"] = samples_to_add["hash"].map(id_to_text_dict), where the
\* dict comprehension reads sample.audio_md5_hash off Row objects that hold one
\* AudioToOriginalText entity each: it raises as soon as the query returns a row,
\* and an empty dict maps every hash to NaN
TextsFromStore(d, dataframe) ==
    [ok |-> HashesOf(d.audio_to_original_text) \cap HashColumn(dataframe) = {},
     df |-> [i \in DOMAIN dataframe |-> [dataframe[i] EXCEPT !.text = NaN]]]

\* the alignment of the rows new to the table
AlignNew(d, inp, samples_to_add) ==
    IF inp.text_col THEN AlignFrame(samples_to_add, inp.grids)
    ELSE IF ~TextsFromStore(d, samples_to_add).ok THEN NoRows
    ELSE AlignFrame(TextsFromStore(d, samples_to_add).df, inp.grids)

\* the alignment of the rows the table has: the second '"text" not in
\* samples_to_add.columns' is never true, and a frame without the column makes
\* sample.text raise
AlignExisting(inp, samples_to_update) ==
    IF inp.text_col THEN AlignFrame(samples_to_update, inp.grids)
    ELSE IF samples_to_update = <<>> THEN Rows(<<>>)
    ELSE NoRows

LoadAlignments(d, inp, md) ==
    IF ~md.ok THEN Raise(d)
    ELSE IF ~inp.overwrite
    THEN AddAll(Begin(d), "audio_to_mfa_data",
            AlignNew(d, inp, NotIn(md.df, HashesOf(d.audio_to_mfa_data))))
    ELSE BulkUpdate(
            AddAll(Begin(d), "audio_to_mfa_data",
                AlignNew(d, inp, NotIn(md.df, HashesOf(d.audio_to_mfa_data)))),
            "audio_to_mfa_data",
            AlignExisting(inp, IsIn(md.df, HashesOf(d.audio_to_mfa_data))))

mfa_main(d, inp) ==
    Commit(d, LoadAlignments(d, inp, read_metadata_and_calculate_hash(inp.meta)))

(***************************************************************************)
(* database_filtration.py.  A dict is a function whose DOMAIN is its keys: *)
(* config.get(key) is None exactly when key is not in DOMAIN config.  A    *)
(* row of the joined query is a function from its non-NULL columns.        *)
(***************************************************************************)
\* the columns of a LEFT OUTER JOIN that found no row
Null == [c \in {} |-> c]

\* a filter method that returns None
NoFilter == [kind |-> "none"]

\* _create_range_filter with both comparisons strict
_create_range_filter_strict(config, config_key, column) ==
    IF config_key \notin DOMAIN config THEN NoFilter
    ELSE IF "min" \in DOMAIN config[config_key] /\ "max" \in DOMAIN config[config_key]
    THEN [kind |-> "strictly_between", column |-> column,
          min |-> config[config_key]["min"], max |-> config[config_key]["max"]]
    ELSE IF "max" \in DOMAIN config[config_key]
    THEN [kind |-> "lt", column |-> column, max |-> config[config_key]["max"]]
    ELSE IF "min" \in DOMAIN config[config_key]
    THEN [kind |-> "gt", column |-> column, min |-> config[config_key]["min"]]
    ELSE NoFilter

\* FiltersGenerator._create_range_filter
_create_range_filter(config, config_key, column) ==
    IF config_key \notin DOMAIN config THEN NoFilter
    ELSE IF "min" \in DOMAIN config[config_key] /\ "max" \in DOMAIN config[config_key]
    THEN [kind |-> "between", column |-> column,
          min |-> config[config_key]["min"], max |-> config[config_key]["max"]]
    ELSE IF "max" \in DOMAIN config[config_key]
    THEN [kind |-> "le", column |-> column, max |-> config[config_key]["max"]]
    ELSE IF "min" \in DOMAIN config[config_key]
    THEN [kind |-> "ge", column |-> column, min |-> config[config_key]["min"]]
    ELSE NoFilter

\* the sample rate as a lower border
sample_rate_filter_at_least(config) ==
    IF "sample_rate" \in DOMAIN config
    THEN [kind |-> "ge", column |-> "sample_rate", min |-> config["sample_rate"]]
    ELSE NoFilter

sample_rate_filter(config) ==
    IF "sample_rate" \in DOMAIN config
    THEN [kind |-> "eq", column |-> "sample_rate", value |-> config["sample_rate"]]
    ELSE NoFilter

channels_filter(config) ==
    IF "channels" \in DOMAIN config
    THEN [kind |-> "eq", column |-> "channels", value |-> config["channels"]]
    ELSE NoFilter

duration_filter(config) == _create_range_filter(config, "duration", "duration_seconds")

SNR_filter(config) == _create_range_filter(config, "SNR", "SNR")

dBFS_filter(config) == _create_range_filter(config, "dBFS", "dBFS")

CER_filter(config) == _create_range_filter(config, "CER", "CER")

WER_filter(config) == _create_range_filter(config, "WER", "WER")

\* the speaker filter with its flag read the wrong way round
use_unknown_speakers_filter_inverted(config) ==
    IF "use_unknown_speakers" \in DOMAIN config /\ config["use_unknown_speakers"]
    THEN [kind |-> "ne", column |-> "speaker_id", value |-> UnknownSpeaker]
    ELSE NoFilter

use_unknown_speakers_filter(config) ==
    IF "use_unknown_speakers" \in DOMAIN config /\ ~config["use_unknown_speakers"]
    THEN [kind |-> "ne", column |-> "speaker_id", value |-> UnknownSpeaker]
    ELSE NoFilter

only_with_ASR_texts_filter(config) ==
    IF "only_with_ASR_texts" \in DOMAIN config /\ config["only_with_ASR_texts"]
    THEN [kind |-> "isnot_none", column |-> "asr_text"]
    ELSE NoFilter

\* the transcript required whatever the config says
only_with_Original_texts_filter_always(config) ==
    [kind |-> "isnot_none", column |-> "original_text"]

only_with_Original_texts_filter(config) ==
    IF "only_with_Original_texts" \in DOMAIN config /\ config["only_with_Original_texts"]
    THEN [kind |-> "isnot_none", column |-> "original_text"]
    ELSE NoFilter

IsFilter(f) == f # NoFilter

generate_filters(config) ==
    SelectSeq(<<sample_rate_filter(config), channels_filter(config), duration_filter(config),
                SNR_filter(config), dBFS_filter(config), CER_filter(config), WER_filter(config),
                use_unknown_speakers_filter(config), only_with_ASR_texts_filter(config),
                only_with_Original_texts_filter(config)>>,
              IsFilter)

\* a condition in the WHERE clause: a comparison with a NULL column is not true
Holds(f, row) ==
    /\ f.column \in DOMAIN row
    /\ CASE f.kind = "between"          -> f.min <= row[f.column] /\ row[f.column] <= f.max
         [] f.kind = "le"               -> row[f.column] <= f.max
         [] f.kind = "ge"               -> row[f.column] >= f.min
         [] f.kind = "strictly_between" -> f.min < row[f.column] /\ row[f.column] < f.max
         [] f.kind = "lt"               -> row[f.column] < f.max
         [] f.kind = "gt"               -> row[f.column] > f.min
         [] f.kind = "eq"               -> row[f.column] = f.value
         [] f.kind = "ne"               -> row[f.column] # f.value
         [] f.kind = "isnot_none"       -> TRUE

\* the row of a hash-keyed table
RowOf(rows, h) == CHOOSE r \in rows : r.audio_md5_hash = h

\* the AudioToDataset rows of the dataset
OfDatasetName(d, dataset_name) == {m \in d.audio_to_dataset : m.dataset_name = dataset_name}

\* the query of filter_dataset before its filters: one row per AudioToDataset
\* row m, outer-joined on the hash with the four other tables
JoinedRow(d, m) ==
    [path_to_file |-> m.path_to_file, speaker_id |-> m.speaker_id,
     audio_md5_hash |-> m.audio_md5_hash]
    @@ (IF m.audio_md5_hash \in HashesOf(d.audio_metrics)
        THEN [duration_seconds |-> RowOf(d.audio_metrics, m.audio_md5_hash).duration_seconds,
              sample_rate |-> RowOf(d.audio_metrics, m.audio_md5_hash).sample_rate,
              channels |-> RowOf(d.audio_metrics, m.audio_md5_hash).channels,
              SNR |-> RowOf(d.audio_metrics, m.audio_md5_hash).SNR,
              dBFS |-> RowOf(d.audio_metrics, m.audio_md5_hash).dBFS]
        ELSE Null)
    @@ (IF m.audio_md5_hash \in HashesOf(d.text_comparation_metrics)
        THEN [WER |-> RowOf(d.text_comparation_metrics, m.audio_md5_hash).WER,
              CER |-> RowOf(d.text_comparation_metrics, m.audio_md5_hash).CER]
        ELSE Null)
    @@ (IF m.audio_md5_hash \in HashesOf(d.audio_to_original_text)
        THEN [original_text |-> RowOf(d.audio_to_original_text, m.audio_md5_hash).text]
        ELSE Null)
    @@ (IF m.audio_md5_hash \in HashesOf(d.audio_to_asr_text)
        THEN [asr_text |-> RowOf(d.audio_to_asr_text, m.audio_md5_hash).text]
        ELSE Null)

\* the five columns the query selects, under the names of the DataFrame
Selected(row) ==
    [path_to_wav |-> row.path_to_file, speaker_id |-> row.speaker_id, hash |-> row.audio_md5_hash]
    @@ [c \in DOMAIN row \cap {"original_text", "asr_text"} |-> row[c]]

\* the speakers of the dataset and the hashes of one of them
SpeakersOf(d, dataset_name) == {m.speaker_id : m \in OfDatasetName(d, dataset_name)}

SamplesOf(d, dataset_name, speaker_id) ==
    {m \in OfDatasetName(d, dataset_name) : m.speaker_id = speaker_id}

\* what a quota method returns: None, or its list valid_hashes
NoList == <<>>

ValidHashes(hashes) == <<hashes>>

\* the rows of a speaker that pass the predicate filters of the config
PassingOf(d, dataset_name, config, speaker_id) ==
    {m \in SamplesOf(d, dataset_name, speaker_id) :
        \A i \in DOMAIN generate_filters(config) :
            Holds(generate_filters(config)[i], JoinedRow(d, m))}

\* samples_per_speaker_filter counting and taking only the rows that pass the
\* predicate filters
samples_per_speaker_filter_of_passing(d, dataset_name, config) ==
    IF "samples_per_speaker" \notin DOMAIN config
       \/ "max" \notin DOMAIN config["samples_per_speaker"]
    THEN {NoList}
    ELSE {ValidHashes(valid) : valid \in
          {valid_hashes \in SUBSET HashesOf(OfDatasetName(d, dataset_name)) :
            \A sp \in SpeakersOf(d, dataset_name) :
               /\ HashesOf(SamplesOf(d, dataset_name, sp)) \cap valid_hashes
                     \subseteq HashesOf(PassingOf(d, dataset_name, config, sp))
               /\ IF Cardinality(PassingOf(d, dataset_name, config, sp))
                        > config["samples_per_speaker"]["max"]
                  THEN Cardinality({m \in PassingOf(d, dataset_name, config, sp) :
                                       m.audio_md5_hash \in valid_hashes})
                          = config["samples_per_speaker"]["max"]
                  ELSE IF /\ "min" \in DOMAIN config["samples_per_speaker"]
                          /\ Cardinality(PassingOf(d, dataset_name, config, sp))
                                < config["samples_per_speaker"]["min"]
                  THEN HashesOf(SamplesOf(d, dataset_name, sp)) \cap valid_hashes = {}
                  ELSE HashesOf(PassingOf(d, dataset_name, config, sp)) \subseteq valid_hashes}}

\* samples_per_speaker_filter without its .limit(max_border)
samples_per_speaker_filter_unlimited(d, dataset_name, config) ==
    IF "samples_per_speaker" \notin DOMAIN config
       \/ "max" \notin DOMAIN config["samples_per_speaker"]
    THEN {NoList}
    ELSE {ValidHashes(HashesOf(OfDatasetName(d, dataset_name)))}

\* samples_per_speaker_filter: the lists of valid hashes the method can return.
\* .limit(max_border) under an ORDER BY on the speaker alone takes any
\* max_border rows of the speaker.
samples_per_speaker_filter(d, dataset_name, config) ==
    IF "samples_per_speaker" \notin DOMAIN config
       \/ "max" \notin DOMAIN config["samples_per_speaker"]
    THEN {NoList}
    ELSE {ValidHashes(valid) : valid \in
          {valid_hashes \in SUBSET HashesOf(OfDatasetName(d, dataset_name)) :
            \A sp \in SpeakersOf(d, dataset_name) :
               IF Cardinality(SamplesOf(d, dataset_name, sp)) > config["samples_per_speaker"]["max"]
               THEN /\ Cardinality({m \in SamplesOf(d, dataset_name, sp) :
                                       m.audio_md5_hash \in valid_hashes})
                          = config["samples_per_speaker"]["max"]
               ELSE IF /\ "min" \in DOMAIN config["samples_per_speaker"]
                       /\ Cardinality(SamplesOf(d, dataset_name, sp))
                             < config["samples_per_speaker"]["min"]
               THEN HashesOf(SamplesOf(d, dataset_name, sp)) \cap valid_hashes = {}
               ELSE HashesOf(SamplesOf(d, dataset_name, sp)) \subseteq valid_hashes}}

\* func.sum(AudioMetrics.duration_seconds) over AudioToDataset rows
RECURSIVE total_duration(_, _)
total_duration(d, samples) ==
    IF samples = {} THEN 0
    ELSE RowOf(d.audio_metrics, (CHOOSE m \in samples : TRUE).audio_md5_hash).duration_seconds
            + total_duration(d, samples \ {CHOOSE m \in samples : TRUE})

\* valid_hashes of minutes_per_speaker_filter: the hashes, and of them the
\* ones appended last to the hashes of a speaker over the maximum
ValidHashesUpTo(hashes, lasts) == <<hashes, lasts>>

\* minutes_per_speaker_filter stopping before the sample that passes the maximum
minutes_per_speaker_filter_exclusive(d, dataset_name, config) ==
    IF "minutes_per_speaker" \notin DOMAIN config
       \/ "max" \notin DOMAIN config["minutes_per_speaker"]
    THEN {NoList}
    ELSE {ValidHashesUpTo(HashesOf(valid[1]), HashesOf(valid[2])) : valid \in
            {v \in (SUBSET OfDatasetName(d, dataset_name)) \X (SUBSET OfDatasetName(d, dataset_name)) :
               \A sp \in SpeakersOf(d, dataset_name) :
                  IF total_duration(d, SamplesOf(d, dataset_name, sp))
                        > config["minutes_per_speaker"]["max"] * 60
                  THEN /\ Cardinality(v[2] \cap SamplesOf(d, dataset_name, sp)) = 1
                       /\ v[2] \cap v[1] \cap SamplesOf(d, dataset_name, sp) = {}
                       /\ total_duration(d, v[1] \cap SamplesOf(d, dataset_name, sp))
                             <= config["minutes_per_speaker"]["max"] * 60
                       /\ total_duration(d, (v[1] \cup v[2]) \cap SamplesOf(d, dataset_name, sp))
                             > config["minutes_per_speaker"]["max"] * 60
                  ELSE /\ v[2] \cap SamplesOf(d, dataset_name, sp) = {}
                       /\ IF /\ "min" \in DOMAIN config["minutes_per_speaker"]
                             /\ total_duration(d, SamplesOf(d, dataset_name, sp))
                                   < config["minutes_per_speaker"]["min"]
                          THEN v[1] \cap SamplesOf(d, dataset_name, sp) = {}
                          ELSE SamplesOf(d, dataset_name, sp) \subseteq v[1]}}

\* minutes_per_speaker_filter: the lists of valid hashes the method can return.
\* The rows of a speaker over the maximum are taken in any order up to and
\* including the one with which the running sum passes max_border * 60.
minutes_per_speaker_filter(d, dataset_name, config) ==
    IF "minutes_per_speaker" \notin DOMAIN config
       \/ "max" \notin DOMAIN config["minutes_per_speaker"]
    THEN {NoList}
    ELSE {ValidHashesUpTo(HashesOf(valid[1]), HashesOf(valid[2])) : valid \in
            {v \in (SUBSET OfDatasetName(d, dataset_name)) \X (SUBSET OfDatasetName(d, dataset_name)) :
               /\ v[2] \subseteq v[1]
               /\ \A sp \in SpeakersOf(d, dataset_name) :
                  IF total_duration(d, SamplesOf(d, dataset_name, sp))
                        > config["minutes_per_speaker"]["max"] * 60
                  THEN /\ Cardinality(v[2] \cap SamplesOf(d, dataset_name, sp)) = 1
                       /\ total_duration(d, v[1] \cap SamplesOf(d, dataset_name, sp))
                             > config["minutes_per_speaker"]["max"] * 60
                       /\ total_duration(d, (v[1] \ v[2]) \cap SamplesOf(d, dataset_name, sp))
                             <= config["minutes_per_speaker"]["max"] * 60
                  ELSE /\ v[2] \cap SamplesOf(d, dataset_name, sp) = {}
                       /\ IF /\ "min" \in DOMAIN config["minutes_per_speaker"]
                             /\ total_duration(d, SamplesOf(d, dataset_name, sp))
                                   < config["minutes_per_speaker"]["min"]
                          THEN v[1] \cap SamplesOf(d, dataset_name, sp) = {}
                          ELSE SamplesOf(d, dataset_name, sp) \subseteq v[1]}}

\* filter_dataset without its two audio_md5_hash.in_ filters
InListIgnored(row, valid) == TRUE

\* AudioToDataset.audio_md5_hash.in_(valid), applied when the list is not None
InList(row, valid) == valid = NoList \/ row.audio_md5_hash \in valid[1]

\* filter_dataset with its filters joined by OR
filter_dataset_any(d, dataset_name, config, valid_samples, valid_minutes) ==
    {Selected(JoinedRow(d, m)) :
        m \in {x \in OfDatasetName(d, dataset_name) :
                 /\ \/ generate_filters(config) = <<>>
                    \/ \E i \in DOMAIN generate_filters(config) :
                          Holds(generate_filters(config)[i], JoinedRow(d, x))
                 /\ InList(JoinedRow(d, x), valid_samples)
                 /\ InList(JoinedRow(d, x), valid_minutes)}}

\* filter_dataset with the lists the two quota methods returned: the DataFrame
\* as the set of its rows (the query has no ORDER BY)
filter_dataset(d, dataset_name, config, valid_samples, valid_minutes) ==
    {Selected(JoinedRow(d, m)) :
        m \in {x \in OfDatasetName(d, dataset_name) :
                 /\ \A i \in DOMAIN generate_filters(config) :
                       Holds(generate_filters(config)[i], JoinedRow(d, x))
                 /\ InList(JoinedRow(d, x), valid_samples)
                 /\ InList(JoinedRow(d, x), valid_minutes)}}

\* the columns of a row of the DataFrame other than the two texts
WithoutTexts(row) == [c \in DOMAIN row \ {"original_text", "asr_text"} |-> row[c]]

\* df["text"] = df["original_text"], then df["text"].fillna(df["asr_text"])
ResolvedText(row) ==
    IF "original_text" \in DOMAIN row THEN row["original_text"] ELSE row["asr_text"]

\* the fillna with the two columns the other way round
process_filtered_data_asr_first(df, include_text) ==
    IF include_text
    THEN {WithoutTexts(row)
            @@ [c \in {"text"} |-> IF "asr_text" \in DOMAIN row THEN row["asr_text"]
                                    ELSE row["original_text"]] :
          row \in {r \in df : DOMAIN r \cap {"original_text", "asr_text"} # {}}}
    ELSE {WithoutTexts(row) : row \in df}

\* process_filtered_data: dropna(subset=["text"]) under include_text, and the
\* two text columns dropped either way
process_filtered_data(df, include_text) ==
    IF include_text
    THEN {WithoutTexts(row) @@ [c \in {"text"} |-> ResolvedText(row)] :
          row \in {r \in df : DOMAIN r \cap {"original_text", "asr_text"} # {}}}
    ELSE {WithoutTexts(row) : row \in df}

(***************************************************************************)
(* What a command line can be given.                                       *)
(***************************************************************************)
Tables(rows) == UNION {[1..n -> rows] : n \in 0..MaxRows}

PathsOf(table) == {table[i].path_to_wav : i \in DOMAIN table}

\* the files a command can look at are those its metadata table names
FilesFor(table) == UNION {[S -> Hashes] : S \in SUBSET PathsOf(table)}

NoFiles == [p \in {} |-> "h1"]

AudioRows(hash_col) ==
    [path_to_wav : Paths, speaker_id : Speakers,
     hash : IF hash_col THEN Hashes ELSE {NoColumn}, text : {NaN}]

\* metadata of the audio-metrics command: with a hash column, or without one
\* (hashes are then computed from the files and metadata.csv is written back)
AudioMetas ==
    {[table |-> x[1], hash_col |-> TRUE, fs |-> x[2], fm |-> "lakefs"] :
        x \in {y \in Tables(AudioRows(TRUE)) \X FileSystems : y[2] \in FilesFor(y[1])}}
    \cup
    {[table |-> x[1], hash_col |-> FALSE, fs |-> x[2], fm |-> x[3]] :
        x \in {y \in Tables(AudioRows(FALSE)) \X FileSystems \X {"local", "lakefs"} :
                  y[2] \in FilesFor(y[1])}}

AudioInputs ==
    {[dataset_name |-> ds, overwrite |-> FALSE, null_pk |-> "raise", meta |-> m] :
        ds \in Datasets, m \in AudioMetas}
    \cup
    {[dataset_name |-> ds, overwrite |-> TRUE, null_pk |-> n, meta |-> m] :
        ds \in Datasets, n \in {"raise", "nomatch"}, m \in AudioMetas}

\* the text commands read the metadata.csv that carries the hash column
HashedMeta(table, fm) == [table |-> table, hash_col |-> TRUE, fs |-> NoFiles, fm |-> fm]

OriginalTextInputs ==
    {[overwrite |-> o, text_col |-> TRUE, meta |-> HashedMeta(t, "lakefs")] :
        o \in BOOLEAN,
        t \in Tables([path_to_wav : {"a.wav"}, speaker_id : {UnknownSpeaker},
                      hash : Hashes, text : Texts])}
    \cup
    {[overwrite |-> o, text_col |-> FALSE, meta |-> HashedMeta(t, "lakefs")] :
        o \in BOOLEAN,
        t \in Tables([path_to_wav : {"a.wav"}, speaker_id : {UnknownSpeaker},
                      hash : Hashes, text : {NaN}])}

HashTables ==
    Tables([path_to_wav : Paths, speaker_id : {UnknownSpeaker}, hash : Hashes, text : {NaN}])

AsrOutcomes(table) ==
    {[failed |-> FALSE, recognized |-> r] : r \in [PathsOf(table) -> Texts]}
    \cup {[failed |-> TRUE, recognized |-> [q \in PathsOf(table) |-> "t1"]]}

AsrInputs ==
    {[overwrite |-> x[1], meta |-> HashedMeta(x[2], "lakefs"), asr |-> x[3]] :
        x \in {y \in BOOLEAN \X HashTables \X
                     ([failed : BOOLEAN, recognized : UNION {[S -> Texts] : S \in SUBSET Paths}]) :
                  y[3] \in AsrOutcomes(y[2])}}

TextComparisonInputs ==
    {[overwrite |-> o, meta |-> HashedMeta(t, "lakefs")] : o \in BOOLEAN, t \in HashTables}

MfaInputs ==
    {[overwrite |-> x[1], text_col |-> TRUE, meta |-> HashedMeta(x[2], "str"), grids |-> x[3]] :
        x \in {y \in BOOLEAN
                     \X Tables([path_to_wav : Paths, speaker_id : {UnknownSpeaker},
                                hash : Hashes, text : {"t1", NaN}])
                     \X SUBSET Paths :
                  y[3] \subseteq PathsOf(y[2])}}
    \cup
    {[overwrite |-> x[1], text_col |-> FALSE, meta |-> HashedMeta(x[2], "str"), grids |-> x[3]] :
        x \in {y \in BOOLEAN \X HashTables \X SUBSET Paths : y[3] \subseteq PathsOf(y[2])}}

(***************************************************************************)
(* The state machine.                                                      *)
(***************************************************************************)
NoRun ==
    [pipeline |-> "none", inp |-> <<>>, before |-> EmptyDb, ok |-> FALSE, rerun |-> FALSE, out |-> {},
     valid_samples |-> NoList, valid_minutes |-> NoList, saved |-> {}]

Invoke(pipeline, d, inp) ==
    CASE pipeline = "audio_metrics"   -> calculate_and_load_metrics_to_db(d, inp)
      [] pipeline = "original_text"   -> process_text_metrics_to_db(d, inp)
      [] pipeline = "asr_text"        -> process_dataset(d, inp)
      [] pipeline = "text_comparison" -> process_text_comparison_metrics_to_db(d, inp)
      [] pipeline = "mfa"             -> mfa_main(d, inp)

\* the process ends with result r = [ok, db] of its pipeline
Exit(pipeline, inp, r, again) ==
    /\ db' = r.db
    /\ pc' = "exited"
    /\ run' = [pipeline |-> pipeline, inp |-> inp, before |-> db, ok |-> r.ok, rerun |-> again,
               out |-> {}, valid_samples |-> NoList, valid_minutes |-> NoList, saved |-> {}]

Typed == pc = "shell" /\ runs < MaxRuns /\ runs' = runs + 1

\* a store that earlier invocations have filled: both wavs of dataset d1 with
\* their transcripts, the first of them with its recognized text
SeedAudio ==
    calculate_and_load_metrics_to_db(EmptyDb,
        [dataset_name |-> "d1", overwrite |-> FALSE, null_pk |-> "raise",
         meta |-> [table |-> <<[path_to_wav |-> "a.wav", speaker_id |-> 0, hash |-> "h1", text |-> NaN],
                               [path_to_wav |-> "b.wav", speaker_id |-> 0, hash |-> "h2", text |-> NaN]>>,
                   hash_col |-> TRUE, fs |-> [q \in Paths |-> IF q = "a.wav" THEN "h1" ELSE "h2"],
                   fm |-> "lakefs"]]).db

SeedTexts ==
    process_text_metrics_to_db(SeedAudio,
        [overwrite |-> FALSE, text_col |-> TRUE,
         meta |-> HashedMeta(<<[path_to_wav |-> "a.wav", speaker_id |-> UnknownSpeaker, hash |-> "h1", text |-> "t1"],
                               [path_to_wav |-> "a.wav", speaker_id |-> UnknownSpeaker, hash |-> "h2", text |-> "t2"]>>,
                             "lakefs")]).db

SeedDb ==
    process_dataset(SeedTexts,
        [overwrite |-> FALSE,
         meta |-> HashedMeta(<<[path_to_wav |-> "a.wav", speaker_id |-> UnknownSpeaker, hash |-> "h1", text |-> NaN]>>,
                             "lakefs"),
         asr |-> [failed |-> FALSE, recognized |-> [q \in {"a.wav"} |-> "t1"]]]).db

\* Base.metadata.create_all(engine, checkfirst=True): a new store is empty, an
\* existing one is left as earlier invocations filled it
Init ==
    /\ db \in {EmptyDb, SeedDb}
    /\ pc = "shell"
    /\ run = NoRun
    /\ runs = 0

CollectAudioMetrics ==
    /\ Typed
    /\ \E inp \in AudioInputs : Exit("audio_metrics", inp, calculate_and_load_metrics_to_db(db, inp), FALSE)

CollectAudioTexts ==
    /\ Typed
    /\ \E inp \in OriginalTextInputs : Exit("original_text", inp, process_text_metrics_to_db(db, inp), FALSE)

AsrProcessing ==
    /\ Typed
    /\ \E inp \in AsrInputs : Exit("asr_text", inp, process_dataset(db, inp), FALSE)

CalculateWerCer ==
    /\ Typed
    /\ \E inp \in TextComparisonInputs : Exit("text_comparison", inp, process_text_comparison_metrics_to_db(db, inp), FALSE)

MfaProcessing ==
    /\ Typed
    /\ \E inp \in MfaInputs : Exit("mfa", inp, mfa_main(db, inp), FALSE)

\* the operator repeats the command that has just exited, unchanged, over the
\* storage as that command left it
Rerun ==
    /\ pc = "exited"
    /\ ~run.rerun
    /\ runs' = runs
    /\ Exit(run.pipeline, [run.inp EXCEPT !.meta = MetadataAfter(@)],
            Invoke(run.pipeline, db, [run.inp EXCEPT !.meta = MetadataAfter(@)]), TRUE)

Return ==
    /\ pc = "exited"
    /\ pc' = "shell"
    /\ run' = NoRun
    /\ UNCHANGED <<db, runs>>

Next ==
    \/ CollectAudioMetrics
    \/ CollectAudioTexts
    \/ AsrProcessing
    \/ CalculateWerCer
    \/ MfaProcessing
    \/ Rerun
    \/ Return

Spec == Init /\ [][Next]_vars

(***************************************************************************)
(* The filtration command over a store that the pipelines have filled.     *)
(***************************************************************************)
\* the keys of the range filters and the borders a config gives them
RangeKeys == {"duration", "SNR", "dBFS", "CER", "WER"}

Borders(key) ==
    CASE key \in {"duration", "SNR"} -> {1, 2}
      [] key = "dBFS"                -> {-2, -1}
      [] key \in {"CER", "WER"}      -> {0, 1}

\* dicts with any of the keys min and max
Settings(borders) == UNION {[K -> borders] : K \in SUBSET {"min", "max"}}

\* configs with up to MaxFilters of the range keys
RangeConfigs ==
    UNION {{config \in [K -> UNION {Settings(Borders(key)) : key \in K}] :
               \A key \in K : config[key] \in Settings(Borders(key))} :
           K \in {S \in SUBSET RangeKeys : Cardinality(S) <= MaxFilters}}

\* configs with one of the other keys
OtherConfigs ==
    {[k \in {"sample_rate"} |-> v] : v \in {16000, 44100}}
    \cup {[k \in {"channels"} |-> v] : v \in {1, 2}}
    \cup {[k \in {key} |-> v] :
            key \in {"use_unknown_speakers", "only_with_ASR_texts", "only_with_Original_texts"},
            v \in BOOLEAN}
    \cup {[k \in {"samples_per_speaker"} |-> v] : v \in Settings({1})}
    \cup {[k \in {"minutes_per_speaker"} |-> v] : v \in Settings({0})}

\* the keys that carry a scalar and the values a config gives them
ScalarKeys ==
    {"sample_rate", "channels", "use_unknown_speakers", "only_with_ASR_texts",
     "only_with_Original_texts"}

ScalarValues(key) ==
    CASE key = "sample_rate" -> {16000, 44100}
      [] key = "channels"    -> {1, 2}
      [] OTHER               -> BOOLEAN

OneKey(key, values) == {[k \in {key} |-> v] : v \in values}

\* configs with none, one or two of the scalar keys
ScalarConfigs ==
    {Null}
    \cup UNION {OneKey(key, ScalarValues(key)) : key \in ScalarKeys}
    \cup UNION {{c1 @@ c2 : c1 \in OneKey(x[1], ScalarValues(x[1])),
                            c2 \in OneKey(x[2], ScalarValues(x[2]))} :
                x \in {y \in ScalarKeys \X ScalarKeys : y[1] # y[2]}}

\* configs of scalar keys together with the duration range
MixedConfigs ==
    {c1 @@ c2 : c1 \in ScalarConfigs,
                c2 \in {Null} \cup OneKey("duration", Settings(Borders("duration")))}

\* the settings of the two quota keys: samples 1 or 2 at most and 2 at least,
\* minutes 0 or 1 at most and 1 at least
SamplesSettings == {st \in Settings({1, 2}) : "min" \in DOMAIN st => st["min"] = 2}

MinutesSettings == {st \in Settings({0, 1}) : "min" \in DOMAIN st => st["min"] = 1}

\* configs with one or both quota keys, alone or beside one predicate
QuotaConfigs ==
    {c1 @@ c2 @@ c3 :
        c1 \in {Null} \cup OneKey("samples_per_speaker", SamplesSettings),
        c2 \in {Null} \cup OneKey("minutes_per_speaker", MinutesSettings),
        c3 \in {Null} \cup OneKey("duration", {[k \in {"min"} |-> 2]})
                  \cup OneKey("only_with_Original_texts", {TRUE})
                  \cup OneKey("use_unknown_speakers", {FALSE})}

FilterConfigs == RangeConfigs \cup OtherConfigs \cup MixedConfigs \cup QuotaConfigs

\* the store after the four metrics commands have run over one dataset
StoreOf(audio, texts, asr, comparison) ==
    process_text_comparison_metrics_to_db(
        process_dataset(
            process_text_metrics_to_db(
                calculate_and_load_metrics_to_db(EmptyDb, audio).db,
                texts).db,
            asr).db,
        comparison).db

FrameRow(path, hash, text) ==
    [path_to_wav |-> path, speaker_id |-> 0, hash |-> hash, text |-> text]

\* two wavs whose bytes are any of the known contents, with the transcript of
\* one or both and the recognized text of one or both
FilterStores ==
    {StoreOf(
        [dataset_name |-> "d1", overwrite |-> FALSE, null_pk |-> "raise",
         meta |-> [table |-> <<FrameRow("a.wav", "h1", NaN), FrameRow("b.wav", "h2", NaN)>>,
                   hash_col |-> TRUE, fs |-> fs, fm |-> "lakefs"]],
        [overwrite |-> FALSE, text_col |-> TRUE,
         meta |-> HashedMeta(SubSeq(<<FrameRow("a.wav", "h1", "t1"), FrameRow("b.wav", "h2", "t1")>>,
                                    1, n), "lakefs")],
        [overwrite |-> FALSE,
         meta |-> HashedMeta(SubSeq(<<FrameRow("a.wav", "h1", NaN), FrameRow("b.wav", "h2", NaN)>>,
                                    1, k), "lakefs"),
         asr |-> [failed |-> FALSE, recognized |-> recognized]],
        [overwrite |-> FALSE,
         meta |-> HashedMeta(<<FrameRow("a.wav", "h1", NaN), FrameRow("b.wav", "h2", NaN)>>,
                             "lakefs")]) :
     fs \in [Paths -> Hashes], n \in 1..2, k \in 1..2, recognized \in [Paths -> Texts]}

\* the files of the three-wav dataset
ThreeFiles == [q \in {"a.wav", "b.wav", "c.wav"} |->
                 IF q = "a.wav" THEN "h1" ELSE IF q = "b.wav" THEN "h2" ELSE "h3"]

\* the audio-metrics command over a table of the three-wav dataset
AudioRun(dataset_name, table) ==
    [dataset_name |-> dataset_name, overwrite |-> FALSE, null_pk |-> "raise",
     meta |-> [table |-> table, hash_col |-> TRUE, fs |-> ThreeFiles, fm |-> "lakefs"]]

SpeakerRow(path, hash, speaker_id) ==
    [path_to_wav |-> path, speaker_id |-> speaker_id, hash |-> hash, text |-> NaN]

\* dataset d1 of three wavs (one, two and sixty seconds) of known or unknown
\* speakers and dataset d2 that shares the first wav; transcripts of the first
\* or the first two wavs, recognized text of the second
SpeakerStores ==
    {process_text_comparison_metrics_to_db(
        process_dataset(
            process_text_metrics_to_db(
                calculate_and_load_metrics_to_db(
                    calculate_and_load_metrics_to_db(EmptyDb,
                        AudioRun("d1", <<SpeakerRow("a.wav", "h1", sp[1]),
                                         SpeakerRow("b.wav", "h2", sp[2]),
                                         SpeakerRow("c.wav", "h3", sp[3])>>)).db,
                    AudioRun("d2", <<SpeakerRow("a.wav", "h1", 0)>>)).db,
                [overwrite |-> FALSE, text_col |-> TRUE,
                 meta |-> HashedMeta(SubSeq(<<FrameRow("a.wav", "h1", "t1"),
                                              FrameRow("b.wav", "h2", "t2")>>, 1, n),
                                     "lakefs")]).db,
            [overwrite |-> FALSE,
             meta |-> HashedMeta(<<FrameRow("b.wav", "h2", NaN)>>, "lakefs"),
             asr |-> [failed |-> FALSE, recognized |-> [q \in {"b.wav"} |-> "t1"]]]).db,
        [overwrite |-> FALSE,
         meta |-> HashedMeta(<<FrameRow("a.wav", "h1", NaN), FrameRow("b.wav", "h2", NaN),
                               FrameRow("c.wav", "h3", NaN)>>, "lakefs")]).db :
     sp \in [1..3 -> {UnknownSpeaker, 0}], n \in 1..2}

InitFilter ==
    /\ db \in FilterStores \cup SpeakerStores
    /\ pc = "shell"
    /\ run = NoRun
    /\ runs = 0

\* the filtration command for one dataset and one config of the YAML file:
\* filter_dataset, then process_filtered_data on its DataFrame, which is saved
FilterDataset ==
    /\ pc = "shell"
    /\ \E dataset_name \in Datasets, config \in FilterConfigs, include_text \in BOOLEAN :
          \E valid_samples \in samples_per_speaker_filter(db, dataset_name, config),
             valid_minutes \in minutes_per_speaker_filter(db, dataset_name, config) :
             run' = [pipeline |-> "filter",
                     inp |-> [dataset_name |-> dataset_name, config |-> config,
                              include_text |-> include_text],
                     before |-> db, ok |-> TRUE, rerun |-> FALSE,
                     out |-> filter_dataset(db, dataset_name, config, valid_samples, valid_minutes),
                     valid_samples |-> valid_samples, valid_minutes |-> valid_minutes,
                     saved |-> process_filtered_data(
                                  filter_dataset(db, dataset_name, config,
                                                 valid_samples, valid_minutes),
                                  include_text)]
    /\ pc' = "exited"
    /\ UNCHANGED <<db, runs>>

NextFilter ==
    \/ FilterDataset
    \/ Return

SpecFilter == InitFilter /\ [][NextFilter]_vars

(***************************************************************************)
(* The filtration command with the profile of the YAML file it is given.   *)
(***************************************************************************)
\* the names a YAML file can hold and the names --config-name can give;
\* NoConfigName is config_name = None
ProfileNames == {"default", "strict"}

NoConfigName == "None"

ConfigNames == {NoConfigName, "default", "strict", "loose"}

ProfileConfigs ==
    {Null, [k \in {"sample_rate"} |-> 16000], [k \in {"only_with_Original_texts"} |-> TRUE]}

\* yaml.safe_load of the file: a mapping of profile names, or None for an
\* empty file
YamlDocuments ==
    {[mapping |-> FALSE, profiles |-> Null]}
    \cup {[mapping |-> TRUE, profiles |-> p] :
            p \in UNION {[K -> ProfileConfigs] : K \in SUBSET ProfileNames}}

\* read_yaml_config that raises for a name the file does not hold
read_yaml_config_no_fallback(configs, config_name) ==
    IF ~configs.mapping THEN [raises |-> "TypeError", config |-> Null]
    ELSE IF config_name \in DOMAIN configs.profiles
    THEN [raises |-> "none", config |-> configs.profiles[config_name]]
    ELSE IF config_name = NoConfigName /\ "default" \in DOMAIN configs.profiles
    THEN [raises |-> "none", config |-> configs.profiles["default"]]
    ELSE [raises |-> "ValueError", config |-> Null]

\* read_yaml_config: configs[config_name], on KeyError configs["default"], on
\* KeyError again ValueError; subscripting None raises TypeError
read_yaml_config(configs, config_name) ==
    IF ~configs.mapping THEN [raises |-> "TypeError", config |-> Null]
    ELSE IF config_name # NoConfigName /\ config_name \in DOMAIN configs.profiles
    THEN [raises |-> "none", config |-> configs.profiles[config_name]]
    ELSE IF "default" \in DOMAIN configs.profiles
    THEN [raises |-> "none", config |-> configs.profiles["default"]]
    ELSE [raises |-> "ValueError", config |-> Null]

InitProfile ==
    /\ db \in FilterStores \cup SpeakerStores
    /\ pc = "shell"
    /\ run = NoRun
    /\ runs = 0

\* filter_dataset: FiltersGenerator(...) reads the profile, and only then the
\* session is made and queried; sessions counts the sessions made
FilterDatasetOfProfile ==
    /\ pc = "shell"
    /\ \E dataset_name \in Datasets, configs \in YamlDocuments, config_name \in ConfigNames,
          include_text \in BOOLEAN :
          IF read_yaml_config(configs, config_name).raises # "none"
          THEN run' = [pipeline |-> "filter",
                       inp |-> [dataset_name |-> dataset_name, configs |-> configs,
                                config_name |-> config_name, include_text |-> include_text],
                       before |-> db, ok |-> FALSE, rerun |-> FALSE,
                       raised |-> read_yaml_config(configs, config_name).raises,
                       sessions |-> 0, out |-> {},
                       valid_samples |-> NoList, valid_minutes |-> NoList, saved |-> {}]
          ELSE \E valid_samples \in samples_per_speaker_filter(
                                       db, dataset_name, read_yaml_config(configs, config_name).config),
                  valid_minutes \in minutes_per_speaker_filter(
                                       db, dataset_name, read_yaml_config(configs, config_name).config) :
                  run' = [pipeline |-> "filter",
                          inp |-> [dataset_name |-> dataset_name, configs |-> configs,
                                   config_name |-> config_name, include_text |-> include_text,
                                   config |-> read_yaml_config(configs, config_name).config],
                          before |-> db, ok |-> TRUE, rerun |-> FALSE,
                          raised |-> "none", sessions |-> 1,
                          out |-> filter_dataset(db, dataset_name,
                                                 read_yaml_config(configs, config_name).config,
                                                 valid_samples, valid_minutes),
                          valid_samples |-> valid_samples, valid_minutes |-> valid_minutes,
                          saved |-> process_filtered_data(
                                       filter_dataset(db, dataset_name,
                                                      read_yaml_config(configs, config_name).config,
                                                      valid_samples, valid_minutes),
                                       include_text)]
    /\ pc' = "exited"
    /\ UNCHANGED <<db, runs>>

NextProfile ==
    \/ FilterDatasetOfProfile
    \/ Return

SpecProfile == InitProfile /\ [][NextProfile]_vars

(***************************************************************************)
(* read_metadata_and_calculate_hash on its own, over metadata tables whose *)
(* hash column may have empty cells.                                       *)
(***************************************************************************)
HasherTables(rows) == UNION {[1..n -> rows] : n \in 0..MaxHasherRows}

\* metadata.csv with a hash column, cells filled or empty, or without one;
\* every wav the table names is in the storage
HasherMetas ==
    {[table |-> x[1], hash_col |-> TRUE, fs |-> x[2], fm |-> "lakefs"] :
        x \in {y \in HasherTables([path_to_wav : Paths, speaker_id : Speakers,
                                   hash : Hashes \cup {NaN}, text : {NaN}])
                     \X FileSystems : DOMAIN y[2] = PathsOf(y[1])}}
    \cup
    {[table |-> x[1], hash_col |-> FALSE, fs |-> x[2], fm |-> "lakefs"] :
        x \in {y \in HasherTables(AudioRows(FALSE)) \X FileSystems :
                  DOMAIN y[2] = PathsOf(y[1])}}

InitHasher ==
    /\ db = EmptyDb
    /\ pc = "shell"
    /\ run \in {[NoRun EXCEPT !.inp = [meta |-> m]] : m \in HasherMetas}
    /\ runs = 0

\* one call of read_metadata_and_calculate_hash on the table of the state
ReadMetadata ==
    /\ pc = "shell"
    /\ pc' = "exited"
    /\ run' = [run EXCEPT !.pipeline = "hasher",
                          !.ok = read_metadata_and_calculate_hash(run.inp.meta).ok,
                          !.out = read_metadata_and_calculate_hash(run.inp.meta).df]
    /\ UNCHANGED <<db, runs>>

NextHasher == ReadMetadata

SpecHasher == InitHasher /\ [][NextHasher]_vars

(***************************************************************************)
(* One worker batch of the ASR command (get_texts_from_audio_by_asr) and   *)
(* of the enhancement command (send_data_to_enhancer, process_audio_files).*)
(* run.tasks maps a file of the batch to the state of its inference task,  *)
(* run.storage maps the artifact paths that exist to their content.        *)
(***************************************************************************)
\* wav files of a dataset in the canonical layout
BatchFiles == {"speaker_0/wavs/a.wav", "speaker_0/wavs/b.wav", "wavs/c.wav"}

\* input_file.replace("/wavs", "/asr_recognized_texts").replace(".wav", ".txt")
txt_path(input_file) ==
    CASE input_file = "speaker_0/wavs/a.wav" -> "speaker_0/asr_recognized_texts/a.txt"
      [] input_file = "speaker_0/wavs/b.wav" -> "speaker_0/asr_recognized_texts/b.txt"
      [] input_file = "wavs/c.wav"           -> "wavs/c.txt"

\* the artifact of a file: its recognized-text file, or the file of the same
\* path in the output storage
ArtifactOf(kind, file) == IF kind = "asr" THEN txt_path(file) ELSE file

\* what the inference service answers, and what an artifact of an earlier run holds
Responses == {"r1", "r2"}

Earlier == "r0"

\* the storage managers: LocalFileSystemManager over an absolute or a relative
\* directory, LakeFSFileSystemManager whose transaction names the branch of
\* the files or a branch of its own
Managers ==
    {[kind |-> "local", prefix |-> "absolute"], [kind |-> "local", prefix |-> "relative"],
     [kind |-> "lakefs", prefix |-> "branch"], [kind |-> "lakefs", prefix |-> "transaction"]}

\* manager.is_path_exists(manager.get_absolute_path(path)): the local manager
\* joins its directory to the path twice, which names the file only when the
\* directory is absolute; the LakeFS manager looks on transaction.branch
is_path_exists_of_absolute_path(manager, path, storage) ==
    IF manager.prefix \in {"absolute", "branch"} THEN path \in DOMAIN storage ELSE FALSE

\* the batches: their files in order, and the artifacts that exist already
Batches ==
    {b \in UNION {[1..n -> BatchFiles] : n \in 1..3} :
        \A i \in DOMAIN b, j \in DOMAIN b : b[i] = b[j] => i = j}

BatchInputs ==
    {[kind |-> x[1], manager |-> x[2], input_batch |-> x[3],
      existing |-> {ArtifactOf(x[1], f) : f \in x[4]}] :
        x \in {y \in {"asr", "enhance"} \X Managers \X Batches \X SUBSET BatchFiles :
                  y[4] \subseteq Range(y[3])}}

InitBatch ==
    /\ db = EmptyDb
    /\ pc = "shell"
    /\ runs = 0
    /\ run \in {[pipeline |-> "none", inp |-> inp, ok |-> FALSE,
                 storage |-> [p \in inp.existing |-> Earlier],
                 tasks |-> Null, requests |-> Null, results |-> Null, written |-> {}] :
                 inp \in BatchInputs}

\* the files of the batch for which the body of the TaskGroup creates a task
ToInfer(inp, storage) ==
    {f \in Range(inp.input_batch) :
        ~is_path_exists_of_absolute_path(inp.manager, ArtifactOf(inp.kind, f), storage)}

\* the body of "async with asyncio.TaskGroup() as tg": a file whose artifact
\* is found is skipped (its text is the result, for ASR), any other file gets
\* a task with one inference request
CreateTasks ==
    /\ pc = "shell"
    /\ pc' = "group"
    /\ run' = [run EXCEPT
                 !.pipeline = "batch",
                 !.tasks = [f \in ToInfer(run.inp, run.storage) |-> "pending"],
                 !.requests = [f \in ToInfer(run.inp, run.storage) |-> 1],
                 !.results = IF run.inp.kind = "asr"
                             THEN [f \in Range(run.inp.input_batch) \ ToInfer(run.inp, run.storage)
                                     |-> run.storage[txt_path(f)]]
                             ELSE Null]
    /\ UNCHANGED <<db, runs>>

\* one inference request of the batch completes
Respond ==
    /\ pc = "group"
    /\ \E f \in DOMAIN run.tasks, r \in Responses :
          /\ run.tasks[f] = "pending"
          /\ run' = [run EXCEPT !.tasks[f] = r]
    /\ UNCHANGED <<db, pc, runs>>

\* one inference request fails or times out: the TaskGroup cancels the tasks
\* still pending and raises out of the "async with"
Fail ==
    /\ pc = "group"
    /\ \E f \in DOMAIN run.tasks :
          /\ run.tasks[f] = "pending"
          /\ run' = [run EXCEPT
                       !.tasks = [g \in DOMAIN run.tasks |->
                                    IF g = f THEN "failed"
                                    ELSE IF run.tasks[g] = "pending" THEN "cancelled"
                                    ELSE run.tasks[g]]]
    /\ pc' = "raised"
    /\ UNCHANGED <<db, runs>>

\* the TaskGroup left as soon as one task is done
SomeDone(tasks) == tasks = Null \/ \E f \in DOMAIN tasks : tasks[f] \in Responses

\* the TaskGroup is left when every task it holds is done
AllDone(tasks) == \A f \in DOMAIN tasks : tasks[f] \in Responses

Join ==
    /\ pc = "group"
    /\ AllDone(run.tasks)
    /\ pc' = "joined"
    /\ UNCHANGED <<db, run, runs>>

\* the files of the batch whose response has not been written, in batch order
NotWritten(r) ==
    {i \in DOMAIN r.inp.input_batch :
        /\ r.inp.input_batch[i] \in DOMAIN r.tasks
        /\ r.tasks[r.inp.input_batch[i]] \in Responses
        /\ r.inp.input_batch[i] \notin r.written}

\* the loop over the responses after the TaskGroup: the next artifact is written
WriteOutput ==
    /\ pc = "joined"
    /\ \E i \in NotWritten(run) :
          /\ \A j \in NotWritten(run) : i <= j
          /\ run' = [run EXCEPT
                       !.storage = [p \in DOMAIN run.storage
                                          \cup {ArtifactOf(run.inp.kind, run.inp.input_batch[i])} |->
                                      IF p = ArtifactOf(run.inp.kind, run.inp.input_batch[i])
                                      THEN run.tasks[run.inp.input_batch[i]]
                                      ELSE run.storage[p]],
                       !.written = run.written \cup {run.inp.input_batch[i]},
                       !.results = IF run.inp.kind = "asr"
                                   THEN [f \in DOMAIN run.results \cup {run.inp.input_batch[i]} |->
                                           IF f = run.inp.input_batch[i]
                                           THEN run.tasks[run.inp.input_batch[i]]
                                           ELSE run.results[f]]
                                   ELSE run.results]
    /\ UNCHANGED <<db, pc, runs>>

\* the batch returns
ReturnBatch ==
    /\ pc = "joined"
    /\ NotWritten(run) = {}
    /\ pc' = "exited"
    /\ run' = [run EXCEPT !.ok = TRUE]
    /\ UNCHANGED <<db, runs>>

NextBatch ==
    \/ CreateTasks
    \/ Respond
    \/ Fail
    \/ Join
    \/ WriteOutput
    \/ ReturnBatch

SpecBatch == InitBatch /\ [][NextBatch]_vars

(***************************************************************************)
(* parce_audio_folder_to_dataset (src/datasets/audio_folder.py).  A file   *)
(* of the folder is [dir, stem, ext] with dir the parts of its directory   *)
(* relative to the folder; a path_to_wav is the sequence of its parts.     *)
(***************************************************************************)
FolderFiles ==
    {[dir |-> <<>>, stem |-> "a", ext |-> ".mp3"],
     [dir |-> <<>>, stem |-> "e", ext |-> ".wav"],
     [dir |-> <<"x">>, stem |-> "b", ext |-> ".wav"],
     [dir |-> <<"x", "sub">>, stem |-> "c", ext |-> ".flac"],
     [dir |-> <<"y">>, stem |-> "d", ext |-> ".ogg"]}

\* parce_all_audio_files_from_directory: the files the globs find, in some order
FolderListings ==
    {l \in UNION {[1..n -> FolderFiles] : n \in 0..MaxFolderFiles} :
        \A i \in DOMAIN l, j \in DOMAIN l : l[i] = l[j] => i = j}

NoSpeakerDir == "None"

\* the directory next to the file in place of the top-level one
parent_dir(file) == IF Len(file.dir) > 0 THEN file.dir[Len(file.dir)] ELSE NoSpeakerDir

\* Path(path).parts[0] if len(Path(path).parts) > 0 else None
speaker_dir(file) == IF Len(file.dir) > 0 THEN file.dir[1] ELSE NoSpeakerDir

\* the row at which a speaker directory appears first
FirstRowOf(files, dir) ==
    CHOOSE i \in DOMAIN files :
        /\ speaker_dir(files[i]) = dir
        /\ \A j \in 1..(i - 1) : speaker_dir(files[j]) # dir

\* unique_speaker_dirs.index(dir), unique() keeping the order of appearance
unique_speaker_dirs_index(files, dir) ==
    Cardinality({d \in {speaker_dir(files[i]) : i \in DOMAIN files} \ {NoSpeakerDir, dir} :
                   FirstRowOf(files, d) < FirstRowOf(files, dir)})

\* f"speaker_{row.speaker_id}"
SpeakerFolder(speaker_id) ==
    CASE speaker_id = 0 -> "speaker_0"
      [] speaker_id = 1 -> "speaker_1"
      [] speaker_id = 2 -> "speaker_2"
      [] OTHER          -> "speaker_n"

\* row.file_name + ".wav"
WavName(file) ==
    CASE file.stem = "a" -> "a.wav"
      [] file.stem = "b" -> "b.wav"
      [] file.stem = "c" -> "c.wav"
      [] file.stem = "d" -> "d.wav"
      [] file.stem = "e" -> "e.wav"

\* the row of one file in the mode without flags
DefaultRow(files, file) ==
    IF speaker_dir(file) = NoSpeakerDir
    THEN [speaker_id |-> -1, path_to_wav |-> <<"wavs", WavName(file)>>]
    ELSE [speaker_id |-> unique_speaker_dirs_index(files, speaker_dir(file)),
          path_to_wav |-> <<SpeakerFolder(unique_speaker_dirs_index(files, speaker_dir(file))), "wavs">>
                             \o SubSeq(file.dir, 2, Len(file.dir)) \o <<WavName(file)>>]

\* parce_audio_folder_to_dataset: the rows of metadata.csv; with both flags
\* no path_to_wav column is made and the call raises
parce_audio_folder_to_dataset(files, single_speaker, unknown_speakers) ==
    IF single_speaker /\ ~unknown_speakers
    THEN [ok |-> TRUE,
          df |-> [i \in DOMAIN files |->
                    [speaker_id |-> 0,
                     path_to_wav |-> <<"speaker_0", "wavs">> \o files[i].dir \o <<WavName(files[i])>>]]]
    ELSE IF ~single_speaker /\ unknown_speakers
    THEN [ok |-> TRUE,
          df |-> [i \in DOMAIN files |->
                    [speaker_id |-> -1,
                     path_to_wav |-> <<"wavs">> \o files[i].dir \o <<WavName(files[i])>>]]]
    ELSE IF ~single_speaker /\ ~unknown_speakers
    THEN [ok |-> TRUE, df |-> [i \in DOMAIN files |-> DefaultRow(files, files[i])]]
    ELSE [ok |-> FALSE, df |-> <<>>]

InitFolder ==
    /\ db = EmptyDb
    /\ pc = "shell"
    /\ runs = 0
    /\ run \in {[NoRun EXCEPT !.inp = [files |-> x[1], single_speaker |-> x[2],
                                       unknown_speakers |-> x[3]]] :
                  x \in FolderListings \X BOOLEAN \X BOOLEAN}

ParceAudioFolder ==
    /\ pc = "shell"
    /\ pc' = "exited"
    /\ run' = [run EXCEPT
                 !.pipeline = "audio_folder",
                 !.ok = parce_audio_folder_to_dataset(
                            run.inp.files, run.inp.single_speaker, run.inp.unknown_speakers).ok,
                 !.out = parce_audio_folder_to_dataset(
                            run.inp.files, run.inp.single_speaker, run.inp.unknown_speakers).df]
    /\ UNCHANGED <<db, runs>>

NextFolder == ParceAudioFolder

SpecFolder == InitFolder /\ [][NextFolder]_vars

(***************************************************************************)
(* get_audio_id_to_text (src/datasets/EmoV_DB/preprocess.py).  A line of   *)
(* the text is either of the shape ( arctic_<letter><digits> "<text>" ),   *)
(* digits a sequence that may be empty, or some other line.                *)
(***************************************************************************)
ArcticTexts == {"Hello World", " Foo Bar", "Hello \"World\""}

ArcticLines ==
    {[shape |-> "other", letter |-> "-", digits |-> <<>>, text |-> "Hello World"]}
    \cup [shape : {"prompt"}, letter : {"a", "b"},
          digits : UNION {[1..n -> {0, 1}] : n \in 0..MaxDigits}, text : ArcticTexts]

ArcticData == UNION {[1..n -> ArcticLines] : n \in 0..MaxArcticLines}

\* re.search(r'\( arctic_a([0-9]*?) \"(.*?)" \)', line): the digits may be none
RegexMatches(line) == line.shape = "prompt" /\ line.letter = "a"

RECURSIVE int(_)
\* int(audio_id) of a string of decimal digits
int(digits) ==
    IF digits = <<>> THEN 0
    ELSE 10 * int(SubSeq(digits, 1, Len(digits) - 1)) + digits[Len(digits)]

\* int("") raises ValueError
IntRaises(digits) == digits = <<>>

\* the last line among the first n that the regex matches with this number
LastLineOf(cmuarctic_data, n, audio_id) ==
    CHOOSE i \in 1..n :
        /\ RegexMatches(cmuarctic_data[i]) /\ int(cmuarctic_data[i].digits) = audio_id
        /\ \A j \in (i + 1)..n :
              ~(RegexMatches(cmuarctic_data[j]) /\ int(cmuarctic_data[j].digits) = audio_id)

\* get_audio_id_to_text: the dict, a later line replacing an earlier entry of
\* its number
get_audio_id_to_text(cmuarctic_data) ==
    IF \E i \in DOMAIN cmuarctic_data :
          RegexMatches(cmuarctic_data[i]) /\ IntRaises(cmuarctic_data[i].digits)
    THEN [raises |-> "ValueError", audio_id_to_text |-> Null]
    ELSE [raises |-> "none",
          audio_id_to_text |->
             [audio_id \in {int(cmuarctic_data[i].digits) :
                              i \in {j \in DOMAIN cmuarctic_data : RegexMatches(cmuarctic_data[j])}} |->
                cmuarctic_data[LastLineOf(cmuarctic_data, Len(cmuarctic_data), audio_id)].text]]

InitArctic ==
    /\ db = EmptyDb
    /\ pc = "shell"
    /\ runs = 0
    /\ run \in {[NoRun EXCEPT !.inp = [cmuarctic_data |-> d]] : d \in ArcticData}

GetAudioIdToText ==
    /\ pc = "shell"
    /\ pc' = "exited"
    /\ run' = [run EXCEPT
                 !.pipeline = "arctic",
                 !.ok = get_audio_id_to_text(run.inp.cmuarctic_data).raises = "none",
                 !.out = get_audio_id_to_text(run.inp.cmuarctic_data).audio_id_to_text]
    /\ UNCHANGED <<db, runs>>

NextArctic == GetAudioIdToText

SpecArctic == InitArctic /\ [][NextArctic]_vars


(***************************************************************************)
(* MLS preprocessing: SpeakerInfo.process, the per-speaker file budget.    *)
(***************************************************************************)
\* the --n_files values tried: -1, and 0 .. one more than the speaker has
NFiles == (0 - 1)..(MaxSpeakerFiles + 1)

\* SpeakerInfo.files after find_audios: AudioInfo.processed is False for each
SpeakerFiles == UNION {[1..n -> {FALSE}] : n \in 0..MaxSpeakerFiles}

\* SpeakerInfo.processed
processed(files) == \A i \in DOMAIN files : files[i]

\* [audio for audio in self.files if not audio.processed], as list positions
unprocessed_files(files) == {i \in DOMAIN files : ~files[i]}

\* len(l[:n]) of a python list of length len: a negative n counts from the end
SliceLen(len, n) ==
    IF n >= 0 THEN (IF n < len THEN n ELSE len)
    ELSE (IF len + n > 0 THEN len + n ELSE 0)

\* the first k positions of a set of list positions
FirstOf(positions, k) == {i \in positions : Cardinality({j \in positions : j < i}) < k}

\* files_to_process of SpeakerInfo.process
files_to_process(files, n_of_files) ==
    IF processed(files) THEN {}
    ELSE IF Cardinality(unprocessed_files(files)) < n_of_files THEN unprocessed_files(files)
    ELSE FirstOf(unprocessed_files(files),
                 SliceLen(Cardinality(unprocessed_files(files)), n_of_files))

\* AudioInfo.save_audio on each of files_to_process sets its processed flag
save_audio(files, converted) == [i \in DOMAIN files |-> files[i] \/ i \in converted]

InitMLS ==
    /\ db = EmptyDb
    /\ pc = "shell"
    /\ runs = 0
    /\ run \in {[NoRun EXCEPT !.inp = [files |-> f]] @@ [files |-> f] : f \in SpeakerFiles}

\* main calls speaker.process(output_path, n_files, ...); a later invocation
\* loads the speakers, flags included, from the cache
Process ==
    /\ runs < MaxProcessCalls
    /\ runs' = runs + 1
    /\ pc' = "exited"
    /\ \E n_of_files \in NFiles :
          run' = [run EXCEPT
                    !.pipeline = "mls",
                    !.ok = TRUE,
                    !.inp = [files |-> run.files, n_of_files |-> n_of_files],
                    !.out = files_to_process(run.files, n_of_files),
                    !.files = save_audio(run.files, files_to_process(run.files, n_of_files))]
    /\ UNCHANGED db

NextMLS == Process

SpecMLS == InitMLS /\ [][NextMLS]_vars


(***************************************************************************)
(* Two invocations of collect_audio_metrics.py over one store.  Each is a  *)
(* process of its own with its own Session: the two selects at the head of *)
(* the block see what is committed when they run, the rows given to        *)
(* add_all are flushed by session.commit(), where the store checks its     *)
(* constraints against what is committed by then.                          *)
(***************************************************************************)
Invocations == {1, 2}

\* both invocations are given the same storage, dataset and metadata.csv, and
\* no --overwrite
ConcurrentInputs == {inp \in AudioInputs : ~inp.overwrite}

\* the two add_all of an invocation whose selects saw the store as seen,
\* flushed over the store d
AddSamplesSeen(d, seen, inp, metadata_df) ==
    AddAllAudioToDataset(
        AddAll(Begin(d), "audio_metrics",
               get_audio_metrics_from_selected_samples(
                   NotIn(metadata_df, existing_in_db_hashes_of_audio(seen)), inp.meta.fs)),
        get_datasets_info_from_selected_samples(
            NotIn(metadata_df, existing_in_db_hashes_of_datasets_info(seen, inp.dataset_name)),
            inp.dataset_name))

NoInvocations ==
    [phase |-> [p \in Invocations |-> "start"], seen |-> [p \in Invocations |-> EmptyDb],
     oks |-> [p \in Invocations |-> FALSE], overlap |-> FALSE]

InitConcurrent ==
    /\ db \in {EmptyDb, SeedDb}
    /\ pc = "shell"
    /\ runs = 0
    /\ run \in {[NoRun EXCEPT !.pipeline = "audio_metrics", !.inp = inp] @@ NoInvocations :
                   inp \in ConcurrentInputs}

\* read_metadata_and_calculate_hash raises before the block is entered
MetadataRaises(p) ==
    /\ run.phase[p] = "start"
    /\ ~read_metadata_and_calculate_hash(run.inp.meta).ok
    /\ run' = [run EXCEPT !.phase[p] = "done"]
    /\ pc' = IF \A q \in Invocations \ {p} : run.phase[q] = "done" THEN "exited" ELSE pc
    /\ UNCHANGED <<db, runs>>

\* the two selects of the hashes
Query(p) ==
    /\ run.phase[p] = "start"
    /\ read_metadata_and_calculate_hash(run.inp.meta).ok
    /\ run' = [run EXCEPT !.phase[p] = "queried", !.seen[p] = db]
    /\ UNCHANGED <<db, pc, runs>>

\* the rest of the block, session.commit() included
CommitInvocation(p) ==
    /\ run.phase[p] = "queried"
    /\ db' = Commit(db, AddSamplesSeen(db, run.seen[p], run.inp,
                                       read_metadata_and_calculate_hash(run.inp.meta).df)).db
    /\ run' = [run EXCEPT
                 !.phase[p] = "done",
                 !.oks[p] = Commit(db, AddSamplesSeen(db, run.seen[p], run.inp,
                                       read_metadata_and_calculate_hash(run.inp.meta).df)).ok,
                 !.overlap = @ \/ \E q \in Invocations \ {p} : run.phase[q] = "queried"]
    /\ pc' = IF \A q \in Invocations \ {p} : run.phase[q] = "done" THEN "exited" ELSE pc
    /\ UNCHANGED runs

NextConcurrent ==
    \E p \in Invocations : MetadataRaises(p) \/ Query(p) \/ CommitInvocation(p)

SpecConcurrent == InitConcurrent /\ [][NextConcurrent]_vars

(***************************************************************************)
(* Properties.                                                             *)
(***************************************************************************)
\* the command that has just exited
Ran(pipeline) == pc = "exited" /\ run.pipeline = pipeline

\* the metadata table of the command with its hash column, before the rows of
\* one hash are collapsed
Frame(meta) == IF meta.hash_col THEN DropDuplicates(meta.table) ELSE WithHashes(meta)

\* rows i and j of a frame name one content under two paths
SameBytes(frame, i, j) ==
    i # j /\ frame[i].hash = frame[j].hash /\ frame[i].path_to_wav # frame[j].path_to_wav

MembershipRows(d, hash, dataset_name) ==
    {m \in d.audio_to_dataset : m.audio_md5_hash = hash /\ m.dataset_name = dataset_name}

\* C1: a metrics pipeline (audio metrics and dataset membership, original
\* text, ASR text, text comparison) run a second time over the same metadata
\* table with overwrite disabled leaves the store exactly as the first run
\* left it.
AddNewIsIdempotent ==
    (/\ pc = "exited"
     /\ run.rerun
     /\ run.pipeline \in {"audio_metrics", "original_text", "asr_text", "text_comparison"}
     /\ ~run.inp.overwrite)
    => db = run.before

\* the second of two runs of the audio-metrics command without overwrite, the
\* first of which put the files of a dataset new to the store into it
AddNewRerunOfCommittedRun ==
    /\ Ran("audio_metrics")
    /\ run.rerun
    /\ ~run.inp.overwrite
    /\ run.ok
    /\ runs = 1
    /\ \E m \in db.audio_to_dataset : m.dataset_name = "d2"

FailedRunCommitsNothing ==
    (pc = "exited" /\ ~run.ok) => db = run.before

\* a run of the audio-metrics command that raised with rows pending in its
\* session
RunRaisedWithPendingRows ==
    /\ Ran("audio_metrics")
    /\ ~run.ok
    /\ LoadMetrics(run.before, run.inp, read_metadata_and_calculate_hash(run.inp.meta)).db
          # run.before

\* C5, as the specification words it: an overwrite run of the audio-metrics
\* command over readable files succeeds and leaves, for every fingerprint of
\* the table that the dataset already had, the DatasetMembership row with the
\* path and speaker of the table, and for every fingerprint the store already
\* had, the AudioMetrics row recomputed from the file.
OverwriteUpdatesInPlace ==
    (/\ Ran("audio_metrics")
     /\ run.inp.overwrite
     /\ run.inp.meta.hash_col
     /\ \A i \in DOMAIN run.inp.meta.table :
           run.inp.meta.table[i].path_to_wav \in DOMAIN run.inp.meta.fs)
    => /\ run.ok
       /\ \A i \in DOMAIN read_metadata_and_calculate_hash(run.inp.meta).df :
             LET row == read_metadata_and_calculate_hash(run.inp.meta).df[i]
             IN  /\ row.hash \in existing_in_db_hashes_of_datasets_info(run.before,
                                                                        run.inp.dataset_name)
                    => \E m \in MembershipRows(db, row.hash, run.inp.dataset_name) :
                          m.path_to_file = row.path_to_wav /\ m.speaker_id = row.speaker_id
                 /\ row.hash \in existing_in_db_hashes_of_audio(run.before)
                    => AudioMetricsRow(row.hash, run.inp.meta.fs[row.path_to_wav])
                          \in db.audio_metrics

\* C6: in every committed store every DatasetMembership, OriginalText,
\* ASRText, TextComparisonMetrics and AlignmentData row carries a fingerprint
\* that has an AudioMetrics row.
ReferentialIntegrity ==
    \A t \in {"audio_to_dataset", "audio_to_original_text", "audio_to_asr_text",
              "text_comparation_metrics", "audio_to_mfa_data"} :
       \A r \in db[t] : \E a \in db.audio_metrics : a.audio_md5_hash = r.audio_md5_hash

\* the text command turned away because its table names a fingerprint without
\* AudioMetrics row, in a store that holds membership rows
TextOfUnknownFingerprintRejected ==
    /\ Ran("original_text")
    /\ ~run.ok
    /\ run.inp.text_col
    /\ \E i \in DOMAIN run.inp.meta.table :
          run.inp.meta.table[i].hash \notin HashesOf(db.audio_metrics)
    /\ db.audio_to_dataset # {}

\* C7: every TextComparisonMetrics row belongs to a fingerprint that has both
\* an OriginalText and an ASRText row, and the text-comparison command leaves
\* out the candidates without either instead of raising.
ComparisonOnlyWithBothTexts ==
    /\ \A r \in db.text_comparation_metrics :
          /\ r.audio_md5_hash \in HashesOf(db.audio_to_original_text)
          /\ r.audio_md5_hash \in HashesOf(db.audio_to_asr_text)
    /\ Ran("text_comparison") => run.ok

\* a text-comparison run that stored a row and left out a candidate of its
\* table that has a transcript but no recognized text
CandidateWithoutAsrTextLeftOut ==
    /\ Ran("text_comparison")
    /\ run.ok
    /\ db.text_comparation_metrics # run.before.text_comparation_metrics
    /\ \E i \in DOMAIN run.inp.meta.table :
          /\ run.inp.meta.table[i].hash \in HashesOf(db.audio_to_original_text)
          /\ run.inp.meta.table[i].hash \notin HashesOf(db.audio_to_asr_text)
          /\ run.inp.meta.table[i].hash \notin HashesOf(db.text_comparation_metrics)

\* C8, as the specification words it: an alignment run over fingerprints that
\* all have AudioMetrics rows does not raise; the rows without transcript or
\* without TextGrid are left out, and every new row with a transcript and a
\* TextGrid has its AlignmentData committed.
MissingTranscriptIsSkipped ==
    (/\ Ran("mfa")
     /\ HashColumn(run.inp.meta.table) \subseteq HashesOf(run.before.audio_metrics))
    => /\ run.ok
       /\ \A i \in DOMAIN read_metadata_and_calculate_hash(run.inp.meta).df :
             LET row == read_metadata_and_calculate_hash(run.inp.meta).df[i]
             IN  (run.inp.text_col /\ row.text # NaN /\ row.path_to_wav \in run.inp.grids)
                 => row.hash \in HashesOf(db.audio_to_mfa_data)

\* C9, as the specification words it: a run of the audio-metrics command
\* whose table names a file that is absent does not raise, and every row
\* whose file is there has its AudioMetrics row committed.
MissingFileIsSkipped ==
    (Ran("audio_metrics") /\ ~run.inp.overwrite /\ run.inp.meta.hash_col)
    => /\ run.ok
       /\ \A i \in DOMAIN run.inp.meta.table :
             run.inp.meta.table[i].path_to_wav \in DOMAIN run.inp.meta.fs
             => run.inp.meta.table[i].hash \in HashesOf(db.audio_metrics)

\* the values the store holds of a range key for a fingerprint: none when
\* the table of the key has no row for it
Measured(d, key, hash) ==
    CASE key = "duration" ->
            {a.duration_seconds : a \in {x \in d.audio_metrics : x.audio_md5_hash = hash}}
      [] key = "SNR" -> {a.SNR : a \in {x \in d.audio_metrics : x.audio_md5_hash = hash}}
      [] key = "dBFS" -> {a.dBFS : a \in {x \in d.audio_metrics : x.audio_md5_hash = hash}}
      [] key = "CER" ->
            {c.CER : c \in {x \in d.text_comparation_metrics : x.audio_md5_hash = hash}}
      [] key = "WER" ->
            {c.WER : c \in {x \in d.text_comparation_metrics : x.audio_md5_hash = hash}}

WithinBorders(settings, v) ==
    /\ "min" \in DOMAIN settings => settings["min"] <= v
    /\ "max" \in DOMAIN settings => v <= settings["max"]

\* C10: under a config of range keys (duration, SNR, dBFS, WER, CER) the rows
\* filter_dataset returns are exactly the DatasetMembership rows of the
\* dataset whose value lies within the borders of every key that gives a min
\* or a max, both borders inclusive; a key that is absent, or gives neither,
\* excludes nothing.
RangeFiltersAreInclusive ==
    (Ran("filter") /\ DOMAIN run.inp.config \subseteq RangeKeys)
    => {r.hash : r \in run.out}
       = {m.audio_md5_hash : m \in
            {x \in OfDatasetName(db, run.inp.dataset_name) :
               \A key \in DOMAIN run.inp.config :
                  \/ DOMAIN run.inp.config[key] = {}
                  \/ \E v \in Measured(db, key, x.audio_md5_hash) :
                        WithinBorders(run.inp.config[key], v)}}

\* a filter run with a two-sided range that returned a row whose value is
\* the min border and excluded another row of the dataset
RowOnTheBorderReturned ==
    /\ Ran("filter")
    /\ \E key \in DOMAIN run.inp.config \cap RangeKeys :
          /\ DOMAIN run.inp.config = {key}
          /\ DOMAIN run.inp.config[key] = {"min", "max"}
          /\ \E r \in run.out :
                run.inp.config[key]["min"] \in Measured(db, key, r.hash)
          /\ \E m \in OfDatasetName(db, run.inp.dataset_name) :
                m.audio_md5_hash \notin {r.hash : r \in run.out}

(***************************************************************************)
(* The predicates of a config, read off the store.                         *)
(***************************************************************************)
QuotaKeys == {"samples_per_speaker", "minutes_per_speaker"}

\* the AudioMetrics row of a membership row
MetricsOf(d, m) == {a \in d.audio_metrics : a.audio_md5_hash = m.audio_md5_hash}

\* membership row m meets the sample_rate and channels of the config
MeetsEquality(d, m, config) ==
    /\ "sample_rate" \in DOMAIN config
          => \E a \in MetricsOf(d, m) : a.sample_rate = config["sample_rate"]
    /\ "channels" \in DOMAIN config
          => \E a \in MetricsOf(d, m) : a.channels = config["channels"]

\* membership row m meets the range keys of the config
MeetsRanges(d, m, config) ==
    \A key \in DOMAIN config \cap RangeKeys :
       \/ DOMAIN config[key] = {}
       \/ \E v \in Measured(d, key, m.audio_md5_hash) : WithinBorders(config[key], v)

\* membership row m meets the three boolean keys of the config
MeetsGates(d, m, config) ==
    /\ ("use_unknown_speakers" \in DOMAIN config /\ ~config["use_unknown_speakers"])
          => m.speaker_id # -1
    /\ ("only_with_ASR_texts" \in DOMAIN config /\ config["only_with_ASR_texts"])
          => m.audio_md5_hash \in HashesOf(d.audio_to_asr_text)
    /\ ("only_with_Original_texts" \in DOMAIN config /\ config["only_with_Original_texts"])
          => m.audio_md5_hash \in HashesOf(d.audio_to_original_text)

\* the membership rows of the dataset that meet every predicate of the config
Matching(d, dataset_name, config) ==
    {m \in OfDatasetName(d, dataset_name) :
        MeetsEquality(d, m, config) /\ MeetsRanges(d, m, config) /\ MeetsGates(d, m, config)}

\* C11: under a config without quota key filter_dataset returns one row for
\* each DatasetMembership row of the requested dataset that meets every
\* predicate of the config, and no other row; under the empty config these are
\* all the membership rows of the dataset.
PredicatesAreConjoined ==
    (Ran("filter") /\ DOMAIN run.inp.config \cap QuotaKeys = {})
    => /\ \A r \in run.out :
             \E m \in Matching(db, run.inp.dataset_name, run.inp.config) :
                /\ r.hash = m.audio_md5_hash
                /\ r.path_to_wav = m.path_to_file
                /\ r.speaker_id = m.speaker_id
       /\ \A m \in Matching(db, run.inp.dataset_name, run.inp.config) :
             \E r \in run.out : r.hash = m.audio_md5_hash /\ r.path_to_wav = m.path_to_file
       /\ Cardinality(run.out)
             = Cardinality(Matching(db, run.inp.dataset_name, run.inp.config))
       /\ run.inp.config = Null
             => Cardinality(run.out)
                   = Cardinality(OfDatasetName(db, run.inp.dataset_name))

\* a filter run with a two-sided duration range and only_with_Original_texts
\* that returned a row, left out a row for its duration and left out a row
\* within the range for want of a transcript
RangeAndTranscriptBothExclude ==
    /\ Ran("filter")
    /\ DOMAIN run.inp.config = {"duration", "only_with_Original_texts"}
    /\ DOMAIN run.inp.config["duration"] = {"min", "max"}
    /\ run.inp.config["only_with_Original_texts"]
    /\ run.out # {}
    /\ \E m1, m2 \in OfDatasetName(db, run.inp.dataset_name) :
          /\ ~MeetsRanges(db, m1, run.inp.config)
          /\ MeetsRanges(db, m2, run.inp.config)
          /\ ~MeetsGates(db, m2, run.inp.config)

\* the keys whose filter reads one of the optional tables
OptionalKeys == {"WER", "CER", "only_with_Original_texts", "only_with_ASR_texts"}

\* the fingerprint is on the list of a quota method, or the method gave None
Allowed(valid, hash) == valid = NoList \/ hash \in valid[1]

\* C12: under a config without WER, CER, only_with_Original_texts and
\* only_with_ASR_texts key, every DatasetMembership row of the dataset that
\* meets the other predicates and the quota lists is in the output whether
\* or not its fingerprint has TextComparisonMetrics, OriginalText or ASRText
\* rows, its text fields null exactly where the row is missing.
OuterJoinsKeepRows ==
    (Ran("filter") /\ DOMAIN run.inp.config \cap OptionalKeys = {})
    => \A m \in OfDatasetName(db, run.inp.dataset_name) :
          (/\ MeetsEquality(db, m, run.inp.config)
           /\ MeetsRanges(db, m, run.inp.config)
           /\ MeetsGates(db, m, run.inp.config)
           /\ Allowed(run.valid_samples, m.audio_md5_hash)
           /\ Allowed(run.valid_minutes, m.audio_md5_hash))
          => \E r \in run.out :
                /\ r.hash = m.audio_md5_hash
                /\ "original_text" \in DOMAIN r
                      <=> m.audio_md5_hash \in HashesOf(db.audio_to_original_text)
                /\ "asr_text" \in DOMAIN r
                      <=> m.audio_md5_hash \in HashesOf(db.audio_to_asr_text)

\* a filter run with a duration range only that returned, with both text
\* fields null, a row whose fingerprint has none of the three optional rows
RowWithoutOptionalRowsReturned ==
    /\ Ran("filter")
    /\ DOMAIN run.inp.config = {"duration"}
    /\ DOMAIN run.inp.config["duration"] # {}
    /\ \E r \in run.out :
          /\ r.hash \notin HashesOf(db.text_comparation_metrics)
          /\ r.hash \notin HashesOf(db.audio_to_original_text)
          /\ r.hash \notin HashesOf(db.audio_to_asr_text)
          /\ DOMAIN r \cap {"original_text", "asr_text"} = {}
    /\ \E m \in OfDatasetName(db, run.inp.dataset_name) :
          m.audio_md5_hash \notin {r.hash : r \in run.out}

\* a config without one of its keys
Without(config, key) == [k \in DOMAIN config \ {key} |-> config[k]]

\* membership row m of the run meets every predicate of the config other than
\* that of the key, and the quota lists
PassesExcept(m, key) ==
    /\ MeetsEquality(db, m, Without(run.inp.config, key))
    /\ MeetsRanges(db, m, Without(run.inp.config, key))
    /\ MeetsGates(db, m, Without(run.inp.config, key))
    /\ Allowed(run.valid_samples, m.audio_md5_hash)
    /\ Allowed(run.valid_minutes, m.audio_md5_hash)

\* the key is in the config with the value
IsSet(config, key, value) == IF key \in DOMAIN config THEN config[key] = value ELSE FALSE

\* C13: use_unknown_speakers = false keeps every row of speaker -1 out of the
\* output, and unset or true it excludes no row; only_with_Original_texts =
\* true (only_with_ASR_texts = true) keeps out every row whose OriginalText
\* (ASRText) is null, and unset it excludes no row.
BooleanGates ==
    Ran("filter")
    => /\ IsSet(run.inp.config, "use_unknown_speakers", FALSE)
             => \A r \in run.out : r.speaker_id # -1
       /\ ~IsSet(run.inp.config, "use_unknown_speakers", FALSE)
             => \A m \in OfDatasetName(db, run.inp.dataset_name) :
                   PassesExcept(m, "use_unknown_speakers")
                   => m.audio_md5_hash \in {r.hash : r \in run.out}
       /\ IsSet(run.inp.config, "only_with_Original_texts", TRUE)
             => \A r \in run.out :
                   "original_text" \in DOMAIN r /\ r.hash \in HashesOf(db.audio_to_original_text)
       /\ "only_with_Original_texts" \notin DOMAIN run.inp.config
             => \A m \in OfDatasetName(db, run.inp.dataset_name) :
                   PassesExcept(m, "only_with_Original_texts")
                   => m.audio_md5_hash \in {r.hash : r \in run.out}
       /\ IsSet(run.inp.config, "only_with_ASR_texts", TRUE)
             => \A r \in run.out :
                   "asr_text" \in DOMAIN r /\ r.hash \in HashesOf(db.audio_to_asr_text)
       /\ "only_with_ASR_texts" \notin DOMAIN run.inp.config
             => \A m \in OfDatasetName(db, run.inp.dataset_name) :
                   PassesExcept(m, "only_with_ASR_texts")
                   => m.audio_md5_hash \in {r.hash : r \in run.out}

\* a filter run with use_unknown_speakers = false over a dataset with rows of
\* speaker -1 and of a known speaker, which returned the latter
UnknownSpeakerExcluded ==
    /\ Ran("filter")
    /\ DOMAIN run.inp.config = {"use_unknown_speakers"}
    /\ ~run.inp.config["use_unknown_speakers"]
    /\ \E m \in OfDatasetName(db, run.inp.dataset_name) : m.speaker_id = -1
    /\ run.out # {}

\* the values the AudioMetrics row of a fingerprint holds in a column
ValueOf(d, column, hash) ==
    {a[column] : a \in {x \in d.audio_metrics : x.audio_md5_hash = hash}}

\* C14: with sample_rate (channels) set to a scalar every returned row has
\* exactly that sample rate (channel count) and no row with that value is
\* excluded on its account; with the key unset it excludes no row.
EqualityFilters ==
    Ran("filter")
    => \A key \in {"sample_rate", "channels"} :
          /\ key \in DOMAIN run.inp.config
                => /\ \A r \in run.out : ValueOf(db, key, r.hash) = {run.inp.config[key]}
                   /\ \A m \in OfDatasetName(db, run.inp.dataset_name) :
                         (/\ run.inp.config[key] \in ValueOf(db, key, m.audio_md5_hash)
                          /\ PassesExcept(m, key))
                         => m.audio_md5_hash \in {r.hash : r \in run.out}
          /\ key \notin DOMAIN run.inp.config
                => \A m \in OfDatasetName(db, run.inp.dataset_name) :
                      PassesExcept(m, key) => m.audio_md5_hash \in {r.hash : r \in run.out}

\* a filter run with the sample rate of one wav of the dataset that returned
\* it and left out a wav of a higher rate
SampleRateSelectsExactly ==
    /\ Ran("filter")
    /\ DOMAIN run.inp.config = {"sample_rate"}
    /\ run.out # {}
    /\ \E m \in OfDatasetName(db, run.inp.dataset_name) :
          /\ m.audio_md5_hash \notin {r.hash : r \in run.out}
          /\ \E v \in ValueOf(db, "sample_rate", m.audio_md5_hash) :
                v > run.inp.config["sample_rate"]

\* the speakers of the dataset of the run and the fingerprints of one of them
SpeakersOfRun == {m.speaker_id : m \in OfDatasetName(db, run.inp.dataset_name)}

HashesOfSpeaker(sp) ==
    {m.audio_md5_hash : m \in {x \in OfDatasetName(db, run.inp.dataset_name) :
                                  x.speaker_id = sp}}

\* the settings of a quota key of the run give exactly these borders
QuotaHas(key, borders) ==
    IF Ran("filter")
    THEN IF key \in DOMAIN run.inp.config
         THEN DOMAIN run.inp.config[key] = borders ELSE FALSE
    ELSE FALSE

\* C15: with samples_per_speaker max = k and no min, the allow-list holds,
\* for every speaker of the dataset, exactly k of the speaker's fingerprints
\* when the speaker has more than k rows and all of them otherwise, and the
\* output has at most k rows of any speaker.
SamplesPerSpeakerCap ==
    (Ran("filter") /\ QuotaHas("samples_per_speaker", {"max"}))
    => /\ run.valid_samples # NoList
       /\ \A sp \in SpeakersOfRun :
             /\ IF Cardinality(HashesOfSpeaker(sp)) > run.inp.config["samples_per_speaker"]["max"]
                THEN Cardinality(HashesOfSpeaker(sp) \cap run.valid_samples[1])
                        = run.inp.config["samples_per_speaker"]["max"]
                ELSE HashesOfSpeaker(sp) \subseteq run.valid_samples[1]
             /\ Cardinality({r \in run.out : r.speaker_id = sp})
                   <= run.inp.config["samples_per_speaker"]["max"]

\* a filter run with samples_per_speaker max = 2 alone over a speaker with
\* three rows, two of which are on the allow-list and in the output
ThreeRowsCappedToTwo ==
    /\ Ran("filter")
    /\ DOMAIN run.inp.config = {"samples_per_speaker"}
    /\ QuotaHas("samples_per_speaker", {"max"})
    /\ run.inp.config["samples_per_speaker"]["max"] = 2
    /\ \E sp \in SpeakersOfRun :
          /\ Cardinality(HashesOfSpeaker(sp)) = 3
          /\ Cardinality(HashesOfSpeaker(sp) \cap run.valid_samples[1]) = 2
          /\ Cardinality({r \in run.out : r.speaker_id = sp}) = 2

\* C16: whenever samples_per_speaker min is set, with or without max, no
\* sample of a speaker with fewer than min samples is in the selection, and a
\* speaker with at least min samples keeps a sample on the allow-list.
SamplesPerSpeakerFloor ==
    (/\ Ran("filter")
     /\ "samples_per_speaker" \in DOMAIN run.inp.config
     /\ "min" \in DOMAIN run.inp.config["samples_per_speaker"])
    => \A sp \in SpeakersOfRun :
          IF Cardinality(HashesOfSpeaker(sp)) < run.inp.config["samples_per_speaker"]["min"]
          THEN {r \in run.out : r.speaker_id = sp} = {}
          ELSE run.valid_samples # NoList
                  => HashesOfSpeaker(sp) \cap run.valid_samples[1] # {}

\* the summed duration in seconds of the samples of a speaker of the run
DurationOfSpeaker(sp) ==
    total_duration(db, {m \in OfDatasetName(db, run.inp.dataset_name) : m.speaker_id = sp})

\* C18: whenever minutes_per_speaker min is set, no sample of a speaker whose
\* summed duration is below min * 60 seconds is in the selection, and a
\* speaker with at least min minutes keeps a sample on the allow-list.
MinutesPerSpeakerFloor ==
    (/\ Ran("filter")
     /\ "minutes_per_speaker" \in DOMAIN run.inp.config
     /\ "min" \in DOMAIN run.inp.config["minutes_per_speaker"])
    => \A sp \in SpeakersOfRun :
          IF DurationOfSpeaker(sp) < run.inp.config["minutes_per_speaker"]["min"] * 60
          THEN {r \in run.out : r.speaker_id = sp} = {}
          ELSE run.valid_minutes # NoList
                  => HashesOfSpeaker(sp) \cap run.valid_minutes[1] # {}

\* the samples of a speaker of the run that are on the minutes allow-list,
\* and the one of them that was appended last
SelectedOfSpeaker(sp) ==
    {m \in OfDatasetName(db, run.inp.dataset_name) :
        m.speaker_id = sp /\ m.audio_md5_hash \in run.valid_minutes[1]}

LastOfSpeaker(sp) ==
    {m \in SelectedOfSpeaker(sp) : m.audio_md5_hash \in run.valid_minutes[2]}

DurationOf(m) == RowOf(db.audio_metrics, m.audio_md5_hash).duration_seconds

\* the run has minutes_per_speaker with max set
MinutesMaxSet ==
    IF Ran("filter")
    THEN IF "minutes_per_speaker" \in DOMAIN run.inp.config
         THEN "max" \in DOMAIN run.inp.config["minutes_per_speaker"] ELSE FALSE
    ELSE FALSE

\* C17: with minutes_per_speaker max = m, the allow-list holds of a speaker
\* whose total duration exceeds m * 60 seconds the shortest prefix of the
\* speaker's samples whose summed duration exceeds m * 60: the selected total
\* is greater than m * 60, it is at most m * 60 without the last selected
\* sample, and so it exceeds m * 60 by at most that sample's duration.
MinutesInclusiveCutoff ==
    MinutesMaxSet
    => /\ run.valid_minutes # NoList
       /\ \A sp \in SpeakersOfRun :
             DurationOfSpeaker(sp) > run.inp.config["minutes_per_speaker"]["max"] * 60
             => /\ total_duration(db, SelectedOfSpeaker(sp))
                     > run.inp.config["minutes_per_speaker"]["max"] * 60
                /\ Cardinality(LastOfSpeaker(sp)) = 1
                /\ \A last \in LastOfSpeaker(sp) :
                      /\ total_duration(db, SelectedOfSpeaker(sp) \ {last})
                            <= run.inp.config["minutes_per_speaker"]["max"] * 60
                      /\ total_duration(db, SelectedOfSpeaker(sp))
                            - run.inp.config["minutes_per_speaker"]["max"] * 60
                            <= DurationOf(last)

\* C17 as stated: the selected total exceeds m * 60 by less than the duration
\* of the last selected sample.
MinutesCutoffExcessBelowLastSample ==
    MinutesMaxSet
    => /\ run.valid_minutes # NoList
       /\ \A sp \in SpeakersOfRun :
             DurationOfSpeaker(sp) > run.inp.config["minutes_per_speaker"]["max"] * 60
             => /\ total_duration(db, SelectedOfSpeaker(sp))
                     > run.inp.config["minutes_per_speaker"]["max"] * 60
                /\ Cardinality(LastOfSpeaker(sp)) = 1
                /\ \A last \in LastOfSpeaker(sp) :
                      /\ total_duration(db, SelectedOfSpeaker(sp) \ {last})
                            <= run.inp.config["minutes_per_speaker"]["max"] * 60
                      /\ total_duration(db, SelectedOfSpeaker(sp))
                            - run.inp.config["minutes_per_speaker"]["max"] * 60
                            < DurationOf(last)

\* a filter run with max = 1 minute over a speaker of 60 s, 2 s and 1 s whose
\* selection is the 60 s sample and then the 1 s sample that passes the minute
SampleCrossingTheMinuteIncluded ==
    /\ MinutesMaxSet
    /\ run.inp.config["minutes_per_speaker"]["max"] = 1
    /\ \E sp \in SpeakersOfRun :
          /\ DurationOfSpeaker(sp) = 63
          /\ HashesOf(SelectedOfSpeaker(sp)) = {"h1", "h3"}
          /\ HashesOf(LastOfSpeaker(sp)) = {"h1"}
          /\ {r.hash : r \in {x \in run.out : x.speaker_id = sp}} \subseteq {"h1", "h3"}

\* the fingerprints of the membership rows that meet every predicate of the run
MatchingHashes == HashesOf(Matching(db, run.inp.dataset_name, run.inp.config))

\* C19: the fingerprints of the output are those of the predicate result that
\* are on the samples-per-speaker list, when there is one, and on the
\* minutes-per-speaker list, when there is one; a quota key that is not in
\* the config gives no list and removes nothing.
QuotasIntersect ==
    Ran("filter")
    => /\ {r.hash : r \in run.out}
            = {h \in MatchingHashes :
                  Allowed(run.valid_samples, h) /\ Allowed(run.valid_minutes, h)}
       /\ "samples_per_speaker" \notin DOMAIN run.inp.config => run.valid_samples = NoList
       /\ "minutes_per_speaker" \notin DOMAIN run.inp.config => run.valid_minutes = NoList
       /\ DOMAIN run.inp.config \cap QuotaKeys = {}
             => {r.hash : r \in run.out} = MatchingHashes

\* a filter run with both lists in which one matching row is off the samples
\* list only, another off the minutes list only, and a third is returned
EachQuotaExcludesARow ==
    /\ Ran("filter")
    /\ run.valid_samples # NoList
    /\ run.valid_minutes # NoList
    /\ \E h1 \in MatchingHashes, h2 \in MatchingHashes :
          /\ h1 \notin run.valid_samples[1] /\ h1 \in run.valid_minutes[1]
          /\ h2 \in run.valid_samples[1] /\ h2 \notin run.valid_minutes[1]
          /\ {r.hash : r \in run.out} = MatchingHashes \ {h1, h2}
    /\ run.out # {}

\* the row of the saved table for a row of the query result, if any
SavedOf(r) ==
    {x \in run.saved : x.hash = r.hash /\ x.path_to_wav = r.path_to_wav
                                        /\ x.speaker_id = r.speaker_id}

\* C20: under include_text every row of the query result whose fingerprint
\* has an OriginalText row is saved with that text, every other row whose
\* fingerprint has an ASRText row is saved with the ASR text, and a row with
\* neither is not saved; without include_text every row is saved, and no
\* saved row has a text column.
TextFallback ==
    Ran("filter")
    => IF run.inp.include_text
       THEN /\ \A r \in run.out :
                  IF r.hash \in HashesOf(db.audio_to_original_text)
                  THEN /\ Cardinality(SavedOf(r)) = 1
                       /\ \A x \in SavedOf(r) :
                             x.text = RowOf(db.audio_to_original_text, r.hash).text
                  ELSE IF r.hash \in HashesOf(db.audio_to_asr_text)
                  THEN /\ Cardinality(SavedOf(r)) = 1
                       /\ \A x \in SavedOf(r) :
                             x.text = RowOf(db.audio_to_asr_text, r.hash).text
                  ELSE SavedOf(r) = {}
            /\ \A x \in run.saved :
                  /\ DOMAIN x = {"path_to_wav", "speaker_id", "hash", "text"}
                  /\ \E r \in run.out : x \in SavedOf(r)
       ELSE /\ \A r \in run.out : Cardinality(SavedOf(r)) = 1
            /\ Cardinality(run.saved) = Cardinality(run.out)
            /\ \A x \in run.saved :
                  /\ DOMAIN x = {"path_to_wav", "speaker_id", "hash"}
                  /\ \E r \in run.out : x \in SavedOf(r)

\* a filter run with include_text whose result has a row saved with its
\* transcript, a row without transcript saved with its ASR text, and a row
\* with neither text that is not saved
OriginalThenASRThenDropped ==
    /\ Ran("filter")
    /\ run.inp.include_text
    /\ \E r1 \in run.out, r2 \in run.out, r3 \in run.out :
          /\ r1.hash \in HashesOf(db.audio_to_original_text)
          /\ \E x \in SavedOf(r1) : x.text = RowOf(db.audio_to_original_text, r1.hash).text
          /\ r2.hash \notin HashesOf(db.audio_to_original_text)
          /\ r2.hash \in HashesOf(db.audio_to_asr_text)
          /\ \E x \in SavedOf(r2) : x.text = RowOf(db.audio_to_asr_text, r2.hash).text
          /\ r3.hash \notin HashesOf(db.audio_to_original_text)
          /\ r3.hash \notin HashesOf(db.audio_to_asr_text)
          /\ SavedOf(r3) = {}

\* C21: a requested profile name that the file holds is used; a name the
\* file does not hold, or no name, gives the default profile; without a
\* default profile the run raises, and it has made no session and saved
\* nothing.
ProfileResolution ==
    Ran("filter")
    => IF /\ run.inp.configs.mapping
          /\ run.inp.config_name # NoConfigName
          /\ run.inp.config_name \in DOMAIN run.inp.configs.profiles
       THEN /\ run.ok
            /\ run.inp.config = run.inp.configs.profiles[run.inp.config_name]
            /\ {r.hash : r \in run.out}
                  = HashesOf(Matching(db, run.inp.dataset_name,
                                      run.inp.configs.profiles[run.inp.config_name]))
       ELSE IF run.inp.configs.mapping /\ "default" \in DOMAIN run.inp.configs.profiles
       THEN /\ run.ok
            /\ run.inp.config = run.inp.configs.profiles["default"]
            /\ {r.hash : r \in run.out}
                  = HashesOf(Matching(db, run.inp.dataset_name,
                                      run.inp.configs.profiles["default"]))
       ELSE /\ ~run.ok
            /\ run.raised \in {"ValueError", "TypeError"}
            /\ run.inp.configs.mapping => run.raised = "ValueError"
            /\ run.sessions = 0
            /\ run.out = {} /\ run.saved = {}
            /\ db = run.before

\* a run that asks for a profile the file does not hold and returns what the
\* default profile selects, which is not what the other profile would select
AbsentNameFallsBackToDefault ==
    /\ Ran("filter")
    /\ run.ok
    /\ run.inp.config_name = "loose"
    /\ DOMAIN run.inp.configs.profiles = ProfileNames
    /\ run.inp.config = run.inp.configs.profiles["default"]
    /\ {r.hash : r \in run.out}
          # HashesOf(Matching(db, run.inp.dataset_name, run.inp.configs.profiles["strict"]))

\* the digest a row of the metadata table stands for: the one in its hash
\* cell, or that of the bytes of its wav when the cell is empty or absent
DigestOf(meta, i) ==
    IF meta.table[i].hash \in Hashes THEN meta.table[i].hash
    ELSE meta.fs[meta.table[i].path_to_wav]

\* C22: the table read_metadata_and_calculate_hash returns has every
\* fingerprint in exactly one row, that row is the first row of the metadata
\* table with the fingerprint, and a row without digest has been given the
\* digest of its file before the collapse, so the fingerprints of the result
\* are those of all the rows of the metadata table.
HasherCollapsesAfterBackfill ==
    (Ran("hasher") /\ run.ok)
    => /\ \A i \in DOMAIN run.out, j \in DOMAIN run.out :
             run.out[i].hash = run.out[j].hash => i = j
       /\ \A i \in DOMAIN run.out :
             \E k \in DOMAIN run.inp.meta.table :
                /\ run.out[i].path_to_wav = run.inp.meta.table[k].path_to_wav
                /\ run.out[i].speaker_id = run.inp.meta.table[k].speaker_id
                /\ run.out[i].hash = DigestOf(run.inp.meta, k)
                /\ \A l \in 1..(k - 1) :
                      DigestOf(run.inp.meta, l) # DigestOf(run.inp.meta, k)
       /\ HashColumn(run.out)
             = {DigestOf(run.inp.meta, k) : k \in DOMAIN run.inp.meta.table}

\* C23: within one worker batch no artifact is written while a request of
\* the batch has not completed, a batch with a failed request has written
\* nothing, has no result and is not resumed, and no file is sent twice.
BatchJoinPoint ==
    run.pipeline = "batch"
    => /\ run.written # {} => \A f \in DOMAIN run.tasks : run.tasks[f] \in Responses
       /\ (\E f \in DOMAIN run.tasks : run.tasks[f] \in {"failed", "cancelled"})
             => /\ run.written = {}
                /\ pc = "raised"
                /\ ~run.ok
                /\ \A p \in DOMAIN run.storage :
                      p \in run.inp.existing /\ run.storage[p] = Earlier
       /\ \A f \in DOMAIN run.requests : run.requests[f] = 1
       /\ run.written \subseteq DOMAIN run.tasks
       /\ pc = "exited" => run.written = DOMAIN run.tasks

\* a batch of three requests that returned with all three artifacts written,
\* two of them holding different responses
ThreeResponsesWrittenAfterJoin ==
    /\ Ran("batch")
    /\ Cardinality(DOMAIN run.tasks) = 3
    /\ run.written = DOMAIN run.tasks
    /\ \E f \in run.written, g \in run.written :
          run.storage[ArtifactOf(run.inp.kind, f)] # run.storage[ArtifactOf(run.inp.kind, g)]

\* the files of the batch whose artifact existed when the batch began
Cached == {f \in Range(run.inp.input_batch) : ArtifactOf(run.inp.kind, f) \in run.inp.existing}

\* C24: a file of the batch whose artifact exists already is never sent to
\* the inference service and its artifact is not rewritten; for ASR the text
\* of the artifact is the result of the file, so a batch whose artifacts all
\* exist sends no request and returns the texts that are there.
ExistingArtifactsAreSkipped ==
    run.pipeline = "batch"
    => /\ \A f \in Cached :
             /\ f \notin DOMAIN run.requests
             /\ f \notin run.written
             /\ run.storage[ArtifactOf(run.inp.kind, f)] = Earlier
             /\ (run.inp.kind = "asr" /\ pc = "exited") => run.results[f] = Earlier
       /\ Cached = Range(run.inp.input_batch) => DOMAIN run.requests = {}

\* the first parts of a path
StartsWith(path, parts) ==
    Len(path) >= Len(parts) /\ SubSeq(path, 1, Len(parts)) = parts

\* C25: parce_audio_folder_to_dataset writes one metadata row for every audio
\* file of the folder; with single_speaker every row has speaker 0 and a path
\* under speaker_0/wavs; with unknown_speakers every row has speaker -1 and a
\* path under wavs; without flags a file of the root has speaker -1 and a
\* path under wavs, a file under a top-level folder has a path under
\* speaker_<id>/wavs with its own id, and the files of one top-level folder
\* have one id.
FolderSpeakerAssignment ==
    (Ran("audio_folder") /\ ~(run.inp.single_speaker /\ run.inp.unknown_speakers))
    => /\ run.ok
       /\ Len(run.out) = Len(run.inp.files)
       /\ \A i \in DOMAIN run.inp.files :
             /\ run.out[i].path_to_wav[Len(run.out[i].path_to_wav)] = WavName(run.inp.files[i])
             /\ IF run.inp.single_speaker
                THEN /\ run.out[i].speaker_id = 0
                     /\ StartsWith(run.out[i].path_to_wav, <<"speaker_0", "wavs">>)
                ELSE IF run.inp.unknown_speakers
                THEN /\ run.out[i].speaker_id = -1
                     /\ StartsWith(run.out[i].path_to_wav, <<"wavs">>)
                ELSE IF Len(run.inp.files[i].dir) = 0
                THEN /\ run.out[i].speaker_id = -1
                     /\ StartsWith(run.out[i].path_to_wav, <<"wavs">>)
                ELSE /\ run.out[i].speaker_id >= 0
                     /\ StartsWith(run.out[i].path_to_wav,
                                   <<SpeakerFolder(run.out[i].speaker_id), "wavs">>)
                     /\ \A j \in DOMAIN run.inp.files :
                           (/\ Len(run.inp.files[j].dir) > 0
                            /\ run.inp.files[j].dir[1] = run.inp.files[i].dir[1])
                           => run.out[j].speaker_id = run.out[i].speaker_id

\* a run without flags over a file of the root, two files of one top-level
\* folder at different depths and a file of another folder
FolderWithNestedAndRootFiles ==
    /\ Ran("audio_folder")
    /\ ~run.inp.single_speaker /\ ~run.inp.unknown_speakers
    /\ Len(run.inp.files) = 4
    /\ \E i, j, k, l \in DOMAIN run.inp.files :
          /\ run.inp.files[i].dir = <<>> /\ run.out[i].speaker_id = -1
          /\ run.inp.files[j].dir = <<"x">>
          /\ run.inp.files[k].dir = <<"x", "sub">>
          /\ run.out[j].speaker_id = run.out[k].speaker_id
          /\ run.inp.files[l].dir = <<"y">>
          /\ run.out[l].speaker_id = 0 /\ run.out[j].speaker_id = 1

\* line i of the text has the form ( arctic_a<digits> "<text>" ) with at
\* least one digit
IsPromptA(i) ==
    /\ run.inp.cmuarctic_data[i].shape = "prompt"
    /\ run.inp.cmuarctic_data[i].letter = "a"
    /\ Len(run.inp.cmuarctic_data[i].digits) > 0

\* C26: get_audio_id_to_text returns a mapping that has, for every line of
\* the form ( arctic_a<digits> "<text>" ), the entry <digits as integer> ->
\* <text> (that of the last such line of one number), and no other entry:
\* arctic_b lines and lines not of the form are ignored, and a text without
\* such a line gives the empty mapping.
ArcticLinesAreMapped ==
    Ran("arctic")
    => /\ run.ok
       /\ DOMAIN run.out
            = {int(run.inp.cmuarctic_data[i].digits) :
                  i \in {j \in DOMAIN run.inp.cmuarctic_data : IsPromptA(j)}}
       /\ \A i \in DOMAIN run.inp.cmuarctic_data :
             (/\ IsPromptA(i)
              /\ \A j \in (i + 1)..Len(run.inp.cmuarctic_data) :
                    IsPromptA(j) => int(run.inp.cmuarctic_data[j].digits)
                                       # int(run.inp.cmuarctic_data[i].digits))
             => run.out[int(run.inp.cmuarctic_data[i].digits)] = run.inp.cmuarctic_data[i].text

\* C27: SpeakerInfo.process with n_files = k >= 0 converts min(k, number of
\* not yet processed files) files, none of them already marked processed, and
\* marks exactly the converted files as processed; with n_files = -1 all
\* files of the speaker are processed.
SpeakerFileBudget ==
    Ran("mls")
    => /\ run.inp.n_of_files >= 0
          => /\ Cardinality(run.out)
                  = (IF run.inp.n_of_files < Cardinality({i \in DOMAIN run.inp.files : ~run.inp.files[i]})
                     THEN run.inp.n_of_files
                     ELSE Cardinality({i \in DOMAIN run.inp.files : ~run.inp.files[i]}))
             /\ \A i \in run.out : ~run.inp.files[i]
             /\ \A i \in DOMAIN run.files : run.files[i] <=> (run.inp.files[i] \/ i \in run.out)
       /\ run.inp.n_of_files = 0 - 1 => \A i \in DOMAIN run.files : run.files[i]

\* the file budget for n_files >= 0 alone
SpeakerFileBudgetNonNegative ==
    (Ran("mls") /\ run.inp.n_of_files >= 0)
    => /\ Cardinality(run.out)
            = (IF run.inp.n_of_files < Cardinality({i \in DOMAIN run.inp.files : ~run.inp.files[i]})
               THEN run.inp.n_of_files
               ELSE Cardinality({i \in DOMAIN run.inp.files : ~run.inp.files[i]}))
       /\ \A i \in run.out : ~run.inp.files[i]
       /\ \A i \in DOMAIN run.files : run.files[i] <=> (run.inp.files[i] \/ i \in run.out)

\* with n_files = -1 every file but the last not yet processed one is converted
AllButLastConverted ==
    (Ran("mls") /\ run.inp.n_of_files = 0 - 1)
    => Cardinality(run.out) + 1 = Cardinality({i \in DOMAIN run.inp.files : ~run.inp.files[i]})
       \/ Cardinality(run.out) = 0

\* the rows of table t the run added
AddedTo(t) == db[t] \ run.before[t]

PresentFingerprintWithOtherTranscript ==
    /\ Ran("original_text") /\ run.ok /\ ~run.inp.overwrite
    /\ \E m \in run.before.audio_to_original_text :
          \E i \in DOMAIN run.inp.meta.table :
              /\ run.inp.meta.table[i].hash = m.audio_md5_hash
              /\ run.inp.meta.table[i].text # m.text

\* C29: when two invocations of the audio-metrics pipeline for one dataset
\* have both run their selects before either commits, the committed store has
\* at most one audio_metrics row per fingerprint and at most one
\* audio_to_dataset row per fingerprint and dataset name, also when the
\* fingerprints have their audio_metrics rows from another dataset.
ConcurrentInvocationsKeepOneRow ==
    (pc = "exited" /\ run.overlap)
    => /\ \A r1, r2 \in db.audio_metrics : r1.audio_md5_hash = r2.audio_md5_hash => r1 = r2
       /\ \A m1, m2 \in db.audio_to_dataset :
             (m1.audio_md5_hash = m2.audio_md5_hash /\ m1.dataset_name = m2.dataset_name)
             => m1 = m2

\* the audio_metrics half holds: the primary key refuses the second commit
ConcurrentInvocationsKeepOneMetricsRow ==
    (pc = "exited" /\ run.overlap)
    => \A r1, r2 \in db.audio_metrics : r1.audio_md5_hash = r2.audio_md5_hash => r1 = r2

\* two overlapping invocations that bring fingerprints new to the store do not
\* both commit
SecondCommitOfNewFingerprintsRejected ==
    (pc = "exited" /\ run.overlap /\ \A p \in Invocations : run.oks[p])
    => \A p \in Invocations :
          HashesOf(db.audio_metrics) \subseteq HashesOf(run.seen[p].audio_metrics)

\* the quota keys of a config alone
QuotaPart(config) == [k \in DOMAIN config \cap QuotaKeys |-> config[k]]

\* configs with the quota keys of the given one and other predicate filters
PredicateVariants(config) ==
    {QuotaPart(config) @@ c : c \in
        {Null} \cup OneKey("duration", {[k \in {"min"} |-> 2]})
               \cup OneKey("sample_rate", {16000})
               \cup OneKey("only_with_Original_texts", {TRUE})
               \cup OneKey("use_unknown_speakers", {FALSE})}

\* the rows of the speaker in the output of the run
OutputOfSpeaker(sp) == {r.hash : r \in {x \in run.out : x.speaker_id = sp}}

\* C30: the two quota lists do not depend on the predicate filters: a config
\* with the same quota keys and other range, equality or boolean filters gives
\* the same lists, those computed from all AudioToDataset rows of the dataset
\* (the config of the quota keys alone); the output of a speaker is the part
\* of the lists that passes the predicates.
QuotaListsIgnorePredicates ==
    (Ran("filter") /\ DOMAIN run.inp.config \cap QuotaKeys # {})
    => /\ \A c \in PredicateVariants(run.inp.config) :
             /\ samples_per_speaker_filter(db, run.inp.dataset_name, c)
                   = samples_per_speaker_filter(db, run.inp.dataset_name, run.inp.config)
             /\ minutes_per_speaker_filter(db, run.inp.dataset_name, c)
                   = minutes_per_speaker_filter(db, run.inp.dataset_name, run.inp.config)
       /\ run.valid_samples
             \in samples_per_speaker_filter(db, run.inp.dataset_name, QuotaPart(run.inp.config))
       /\ run.valid_minutes
             \in minutes_per_speaker_filter(db, run.inp.dataset_name, QuotaPart(run.inp.config))
       /\ \A sp \in SpeakersOfRun :
             OutputOfSpeaker(sp)
                = {h \in HashesOfSpeaker(sp) \cap MatchingHashes :
                      Allowed(run.valid_samples, h) /\ Allowed(run.valid_minutes, h)}

\* a run with a samples maximum and a predicate: at least max rows of the
\* speaker pass the predicate, the list holds a row that does not, and fewer
\* than max rows of the speaker are returned
FewerThanMaxThoughEnoughPass ==
    /\ Ran("filter")
    /\ QuotaHas("samples_per_speaker", {"max"})
    /\ DOMAIN run.inp.config \ QuotaKeys # {}
    /\ \E sp \in SpeakersOfRun :
          /\ Cardinality(HashesOfSpeaker(sp) \cap MatchingHashes)
                >= run.inp.config["samples_per_speaker"]["max"]
          /\ \E h \in HashesOfSpeaker(sp) : h \in run.valid_samples[1] /\ h \notin MatchingHashes
          /\ Cardinality(OutputOfSpeaker(sp)) < run.inp.config["samples_per_speaker"]["max"]

====
